---------------------------- MODULE Spec2Model ----------------------------
(***************************************************************************)
(* Model of the NLP builder of the mecanum trajectory optimizer            *)
(* (backend/optimizer.py, backend/dynamics.py).                            *)
(*                                                                         *)
(* TrajectoryOptimizer.solve is a straight-line program; it is modelled    *)
(* phase by phase, the program counter pc naming the phase that runs next. *)
(* Every opti.subject_to call appends one record to cons, in call order.   *)
(*                                                                         *)
(* Units.  Positions are integers (metres).  Headings are integers in      *)
(* quarter turns, so PI = 2 and TWO_PI = 4.  Step sizes are in 1/100 s.    *)
(* Python indices are kept 0-based: At(seq, i) reads Python's seq[i].      *)
(***************************************************************************)
EXTENDS Integers, Sequences, FiniteSets, TLC

VARIABLES
    pc,                      \* phase of solve that runs next
    min_samples_per_segment, \* TrajectoryOptimizer.min_samples_per_segment
    samples_per_meter,       \* TrajectoryOptimizer.samples_per_meter
    waypoints,               \* solve's argument
    constraints,             \* solve's argument (read by _add_path_constraints)
    n_segments,
    samples_per_segment,
    N,
    K,
    segment_start_indices,
    dims,                    \* shapes of X, U, DT_seg once created
    objective,               \* coefficient of DT_seg[s] in total_time_expr
    cons,                    \* the opti.subject_to calls so far, in order
    uw_i,                    \* index of the waypoint the unwrap loop is at
    heading,                 \* unwrap loop: heading
    prev_heading,            \* unwrap loop: prev_heading
    unwrapped_headings,
    k_wps,                   \* k_wp of every waypoint, as computed in the loop
    fx,                      \* wheel-force check: state x
    fu,                      \* wheel-force check: control u
    fp,                      \* wheel-force check: robot parameters
    f_dyn,                   \* forces computed inside create_dynamics_function
    f_map,                   \* forces returned by create_wheel_forces_function
    effective_positions,     \* _set_initial_guess: effective_positions
    guess,                   \* the opti.set_initial calls, by variable
    sol,                     \* what opti.solve() left behind
    result,                  \* the SolverResult that solve returns
    g_args,                  \* _set_initial_guess alone: its arguments
    g_guess,                 \* _set_initial_guess alone: its set_initial calls
    request,                 \* POST /solve: the SolveRequest
    route_pc,                \* POST /solve: the statement that runs next
    params,                  \* POST /solve: params
    core_waypoints,          \* POST /solve: waypoints
    core_constraints,        \* POST /solve: constraints
    response,                \* POST /solve: what the client receives
    files,                   \* the *.json files in get_projects_dir()
    clock,                   \* datetime.utcnow(), in ticks
    reply,                   \* project and adb endpoints: the last answer
    adb_pc,                  \* adb_push: the statement that runs next
    adb_filename,            \* adb_push: safe_filename
    adb_log,                 \* the adb commands adb_push has run, with outcome
    saved,                   \* per file, what the last successful save was given
    optimizer,               \* a TrajectoryOptimizer shared by two solve calls
    call                     \* the frames of the two solve calls

solveVars == <<pc, min_samples_per_segment, samples_per_meter, waypoints,
               constraints, n_segments, samples_per_segment, N, K,
               segment_start_indices, dims, objective, cons, uw_i, heading,
               prev_heading, unwrapped_headings, k_wps>>

\* what the phases after _add_path_constraints leave alone
problemVars == <<min_samples_per_segment, samples_per_meter, waypoints,
                 constraints, n_segments, samples_per_segment, N, K,
                 segment_start_indices, dims, objective, cons, uw_i, heading,
                 prev_heading, unwrapped_headings, k_wps>>

forceVars == <<fx, fu, fp, f_dyn, f_map>>

resultVars == <<effective_positions, guess, sol, result>>

guessFnVars == <<g_args, g_guess>>

routeVars == <<request, route_pc, params, core_waypoints, core_constraints,
               response>>

serverVars == <<files, clock, reply, adb_pc, adb_filename, adb_log, saved>>

callVars == <<optimizer, call>>

extVars == <<guessFnVars, routeVars, serverVars, callVars>>

vars == <<solveVars, forceVars, resultVars, extVars>>

---------------------------------------------------------------------------
(* Bounds of the model *)

MaxWaypoints == 3

MaxMinSamples == 2

MaxSamplesPerMeter == 2

\* Magnitude from which adding or subtracting 2*pi leaves a double
\* unchanged (2*pi is below half an ulp).  For IEEE doubles this happens
\* near 2^56 rad; the model scales it down.
Absorb == 16

MaxVel == 1

---------------------------------------------------------------------------
(* Program constants *)

PI == 2

TWO_PI == 4

DtMin == 1

DtMax == 100

FTractionMax == 20

---------------------------------------------------------------------------
(* Helpers *)

At(seq, i) == seq[i + 1]

Range0(n) == 0 .. (n - 1)

Abs(v) == IF v < 0 THEN -v ELSE v

Max(a, b) == IF a >= b THEN a ELSE b

Min(a, b) == IF a <= b THEN a ELSE b

Sgn(v) == IF v > 0 THEN 1 ELSE IF v < 0 THEN -1 ELSE 0

RECURSIVE Sum(_)
Sum(seq) == IF seq = <<>> THEN 0 ELSE Head(seq) + Sum(Tail(seq))

\* int(np.ceil(np.sqrt(q))) for an integer q >= 0
CeilSqrt(q) == CHOOSE n \in 0 .. q : n * n >= q /\ \A m \in 0 .. (n - 1) : m * m < q

\* One opti.subject_to call.  src: the block of solve that makes the call;
\* form: the expression; k: knot or interval (-1 if none); idx: waypoint,
\* segment, wheel or constraint index; args: the numbers in the expression.
Con(src, form, k, idx, args) ==
    [src |-> src, form |-> form, k |-> k, idx |-> idx, args |-> args]

---------------------------------------------------------------------------
(* Inputs *)

Huge == 2 * Absorb

Wp(x, y, h, stop, type, ix, iy, d, vmax, slack) ==
    [x |-> x, y |-> y, heading |-> h, stop |-> stop, type |-> type,
     intake_x |-> ix, intake_y |-> iy, intake_distance |-> d,
     intake_velocity_max |-> vmax, intake_velocity_slack |-> slack]

\* The waypoints a solve is called with are drawn from this palette.  The
\* heading of an intake waypoint is read by the unwrapping only.
WaypointChoices ==
    { Wp(0, 0, 0, TRUE, "constrained", 0, 0, 0, 1, 1),
      Wp(1, 1, 3, FALSE, "constrained", 0, 0, 0, 1, 1),
      Wp(1, 0, 7, TRUE, "unconstrained", 0, 0, 0, 1, 1),
      Wp(0, 1, 2, FALSE, "intake", 2, 0, 1, 1, 1),
      Wp(2, 2, 3, TRUE, "intake", 1, 1, 1, 2, 3),
      Wp(1, 0, Huge, TRUE, "constrained", 0, 0, 0, 1, 1) }

SeqsUpTo(S, n) == UNION { [1 .. m -> S] : m \in 0 .. n }

ConstraintKinds ==
    { "circle-obstacle", "stay-in-rect", "stay-in-lane", "heading-tangent",
      "max-velocity", "max-omega", "rect-obstacle" }

PathConstraint(type, from, to) ==
    [type |-> type, from_waypoint |-> from, to_waypoint |-> to]

---------------------------------------------------------------------------
(* _compute_effective_positions *)

\* np.arctan2(dy, dx) in quarter turns, for a vector along an axis
Atan2Q(dy, dx) ==
    IF dy = 0 THEN (IF dx >= 0 THEN 0 ELSE 2)
    ELSE IF dy > 0 THEN 1 ELSE -1

\* effective position of intake waypoint wp, given the previous effective
\* position prev (or <<>> when wp is the first waypoint)
IntakeEffective(wp, prev) ==
    LET dx == wp.intake_x - prev[1]
        dy == wp.intake_y - prev[2]
        dist == Abs(dx) + Abs(dy)   \* sqrt(dx^2+dy^2) when dx = 0 or dy = 0
        ex == IF prev # <<>> /\ dist > 0
              THEN wp.intake_x - Sgn(dx) * wp.intake_distance
              ELSE wp.intake_x - wp.intake_distance
        ey == IF prev # <<>> /\ dist > 0
              THEN wp.intake_y - Sgn(dy) * wp.intake_distance
              ELSE wp.intake_y
    IN  <<ex, ey, Atan2Q(wp.intake_y - ey, wp.intake_x - ex)>>

RECURSIVE EffectiveLoop(_, _, _)
EffectiveLoop(wps, i, acc) ==
    IF i >= Len(wps) THEN acc
    ELSE LET wp == At(wps, i)
             e == IF wp.type = "intake"
                  THEN IntakeEffective(wp, IF i > 0 THEN At(acc, i - 1) ELSE <<>>)
                  ELSE <<wp.x, wp.y, wp.heading>>
         IN  EffectiveLoop(wps, i + 1, Append(acc, e))

compute_effective_positions(wps) == EffectiveLoop(wps, 0, <<>>)

\* The approach direction of every intake waypoint lies along an axis, so
\* that its length is an integer and the unit vector is exact.
ExactInput(wps) ==
    LET eff == compute_effective_positions(wps)
    IN  \A i \in 1 .. (Len(wps) - 1) :
            At(wps, i).type = "intake" =>
                \/ At(wps, i).intake_x = At(eff, i - 1)[1]
                \/ At(wps, i).intake_y = At(eff, i - 1)[2]

WaypointLists == { w \in SeqsUpTo(WaypointChoices, MaxWaypoints) : ExactInput(w) }

---------------------------------------------------------------------------
(* _compute_samples_per_segment *)

\* n_samples for the segment from effective position e1 to e2:
\* int(np.ceil(dist * spm)) = CeilSqrt(spm^2 * dist^2)
\* mutant: min instead of max
NSamplesMin(e1, e2, mu, spm) ==
    LET d2 == (e2[1] - e1[1]) * (e2[1] - e1[1]) + (e2[2] - e1[2]) * (e2[2] - e1[2])
    IN  Min(mu, CeilSqrt(spm * spm * d2))

NSamples(e1, e2, mu, spm) ==
    LET d2 == (e2[1] - e1[1]) * (e2[1] - e1[1]) + (e2[2] - e1[2]) * (e2[2] - e1[2])
    IN  Max(mu, CeilSqrt(spm * spm * d2))

compute_samples_per_segment(wps, mu, spm) ==
    LET eff == compute_effective_positions(wps)
    IN  [s \in 1 .. (Len(wps) - 1) |-> NSamples(At(eff, s - 1), At(eff, s), mu, spm)]

\* segment_start_indices = [0]; for n in samples: append(last + n)
StartIndices(samples) ==
    [j \in 1 .. (Len(samples) + 1) |-> Sum(SubSeq(samples, 1, j - 1))]

---------------------------------------------------------------------------
(* get_segment_index *)

RECURSIVE SegScan(_, _, _, _)
SegScan(k, s, nseg, S) ==
    IF s >= nseg THEN nseg - 1
    ELSE IF k < At(S, s + 1) THEN s
    ELSE SegScan(k, s + 1, nseg, S)

\* mutant: the scan compares with <= instead of <
RECURSIVE SegScanLe(_, _, _, _)
SegScanLe(k, s, nseg, S) ==
    IF s >= nseg THEN nseg - 1
    ELSE IF k <= At(S, s + 1) THEN s
    ELSE SegScanLe(k, s + 1, nseg, S)

get_segment_index_le(k, nseg, S) == SegScanLe(k, 0, nseg, S)

get_segment_index(k, nseg, S) == SegScan(k, 0, nseg, S)

---------------------------------------------------------------------------
(* Initial state: the optimizer has been constructed *)

\* the wheel-force check is not running
ForceIdle ==
    /\ fx = <<>>
    /\ fu = <<>>
    /\ fp = <<>>
    /\ f_dyn = <<>>
    /\ f_map = <<>>

\* nothing has been guessed, solved or returned yet
ResultIdle ==
    /\ effective_positions = <<>>
    /\ guess = <<>>
    /\ sol = <<>>
    /\ result = <<>>

\* _set_initial_guess is not being evaluated on its own
GuessFnIdle ==
    /\ g_args = <<>>
    /\ g_guess = <<>>

\* no request is being served
RouteIdle ==
    /\ request = <<>>
    /\ route_pc = "idle"
    /\ params = <<>>
    /\ core_waypoints = <<>>
    /\ core_constraints = <<>>
    /\ response = <<>>

ServerIdle ==
    /\ files = <<>>
    /\ clock = 0
    /\ reply = <<>>
    /\ adb_pc = "idle"
    /\ adb_filename = <<>>
    /\ adb_log = <<>>
    /\ saved = <<>>

CallsIdle ==
    /\ optimizer = <<>>
    /\ call = <<>>

ExtIdle == GuessFnIdle /\ RouteIdle /\ ServerIdle /\ CallsIdle

Init ==
    /\ pc = "idle"
    /\ min_samples_per_segment \in {0, 1, MaxMinSamples}
    /\ samples_per_meter \in {1, MaxSamplesPerMeter}
    /\ waypoints = <<>>
    /\ constraints = <<>>
    /\ n_segments = 0
    /\ samples_per_segment = <<>>
    /\ N = 0
    /\ K = 0
    /\ segment_start_indices = <<>>
    /\ dims = <<>>
    /\ objective = <<>>
    /\ cons = <<>>
    /\ uw_i = 0
    /\ heading = 0
    /\ prev_heading = 0
    /\ unwrapped_headings = <<>>
    /\ k_wps = <<>>
    /\ ForceIdle
    /\ ResultIdle
    /\ ExtIdle

---------------------------------------------------------------------------
(* solve, lines 137-151: validation and grid *)

\* mutant: one waypoint is enough
TooFewWaypointsOne(wps) == Len(wps) < 1

\* line 137
TooFewWaypoints(wps) == Len(wps) < 2

SolveBegin ==
    /\ pc = "idle"
    /\ \E wps \in WaypointLists :
        /\ waypoints' = wps
        /\ pc' = IF TooFewWaypoints(wps) THEN "error" ELSE "grid"
    /\ UNCHANGED <<min_samples_per_segment, samples_per_meter, constraints,
                   n_segments, samples_per_segment, N, K, segment_start_indices,
                   dims, objective, cons, uw_i, heading, prev_heading,
                   unwrapped_headings, k_wps, forceVars, resultVars, extVars>>

BuildGrid ==
    /\ pc = "grid"
    /\ LET samples == compute_samples_per_segment(waypoints,
                          min_samples_per_segment, samples_per_meter)
       IN  /\ n_segments' = Len(waypoints) - 1
           /\ samples_per_segment' = samples
           /\ N' = Sum(samples)
           /\ K' = Sum(samples) + 1
           /\ segment_start_indices' = StartIndices(samples)
    /\ pc' = "variables"
    /\ UNCHANGED <<min_samples_per_segment, samples_per_meter, waypoints,
                   constraints, dims, objective, cons, uw_i, heading,
                   prev_heading, unwrapped_headings, k_wps, forceVars, resultVars, extVars>>

(* lines 154-172: decision variables and objective *)
CreateVariables ==
    /\ pc = "variables"
    /\ dims' = [X |-> <<6, K>>, U |-> <<3, N>>, DT_seg |-> n_segments]
    /\ objective' = [s \in 1 .. n_segments |-> samples_per_segment[s]]
    /\ pc' = "dynamics"
    /\ UNCHANGED <<min_samples_per_segment, samples_per_meter, waypoints,
                   constraints, n_segments, samples_per_segment, N, K,
                   segment_start_indices, cons, uw_i, heading, prev_heading,
                   unwrapped_headings, k_wps, forceVars, resultVars, extVars>>

(* lines 184-187: one defect per interval, with the segment's step size *)
DefectCons(n, nseg, S) ==
    [j \in 1 .. n |->
        Con("dynamics", "defect", j - 1, get_segment_index(j - 1, nseg, S), <<>>)]

DynamicsConstraints ==
    /\ pc = "dynamics"
    /\ cons' = cons \o DefectCons(N, n_segments, segment_start_indices)
    /\ pc' = "unwrap"
    /\ UNCHANGED <<min_samples_per_segment, samples_per_meter, waypoints,
                   constraints, n_segments, samples_per_segment, N, K,
                   segment_start_indices, dims, objective, uw_i, heading,
                   prev_heading, unwrapped_headings, k_wps, forceVars, resultVars, extVars>>

---------------------------------------------------------------------------
(* lines 192-202: heading unwrapping *)

\* heading -= 2 * np.pi and heading += 2 * np.pi in double arithmetic: from
\* magnitude Absorb on, the result rounds back to the operand.
FSub(h, c) == IF Abs(h) >= Absorb THEN h ELSE h - c

FAdd(h, c) == IF Abs(h) >= Absorb THEN h ELSE h + c

NeedsSub(h, prev) == h - prev > PI

NeedsAdd(h, prev) == h - prev < -PI

UnwrapStart ==
    /\ pc = "unwrap"
    /\ unwrapped_headings' = <<>>
    /\ prev_heading' = At(waypoints, 0).heading
    /\ uw_i' = 0
    /\ heading' = At(waypoints, 0).heading
    /\ pc' = "unwrap_sub"
    /\ UNCHANGED <<min_samples_per_segment, samples_per_meter, waypoints,
                   constraints, n_segments, samples_per_segment, N, K,
                   segment_start_indices, dims, objective, cons, k_wps,
                   forceVars, resultVars, extVars>>

\* one iteration of: while heading - prev_heading > np.pi
UnwrapSub ==
    /\ pc = "unwrap_sub"
    /\ NeedsSub(heading, prev_heading)
    /\ heading' = FSub(heading, TWO_PI)
    /\ UNCHANGED <<pc, min_samples_per_segment, samples_per_meter, waypoints,
                   constraints, n_segments, samples_per_segment, N, K,
                   segment_start_indices, dims, objective, cons, uw_i,
                   prev_heading, unwrapped_headings, k_wps, forceVars, resultVars, extVars>>

UnwrapSubDone ==
    /\ pc = "unwrap_sub"
    /\ ~NeedsSub(heading, prev_heading)
    /\ pc' = "unwrap_add"
    /\ UNCHANGED <<min_samples_per_segment, samples_per_meter, waypoints,
                   constraints, n_segments, samples_per_segment, N, K,
                   segment_start_indices, dims, objective, cons, uw_i, heading,
                   prev_heading, unwrapped_headings, k_wps, forceVars, resultVars, extVars>>

\* one iteration of: while heading - prev_heading < -np.pi
UnwrapAdd ==
    /\ pc = "unwrap_add"
    /\ NeedsAdd(heading, prev_heading)
    /\ heading' = FAdd(heading, TWO_PI)
    /\ UNCHANGED <<pc, min_samples_per_segment, samples_per_meter, waypoints,
                   constraints, n_segments, samples_per_segment, N, K,
                   segment_start_indices, dims, objective, cons, uw_i,
                   prev_heading, unwrapped_headings, k_wps, forceVars, resultVars, extVars>>

\* unwrapped_headings.append(heading); prev_heading = heading; next wp
UnwrapAppend ==
    /\ pc = "unwrap_add"
    /\ ~NeedsAdd(heading, prev_heading)
    /\ unwrapped_headings' = Append(unwrapped_headings, heading)
    /\ prev_heading' = heading
    /\ IF uw_i + 1 < Len(waypoints)
       THEN /\ uw_i' = uw_i + 1
            /\ heading' = At(waypoints, uw_i + 1).heading
            /\ pc' = "unwrap_sub"
       ELSE /\ uw_i' = uw_i
            /\ heading' = heading
            /\ pc' = "waypoints"
    /\ UNCHANGED <<min_samples_per_segment, samples_per_meter, waypoints,
                   constraints, n_segments, samples_per_segment, N, K,
                   segment_start_indices, dims, objective, cons, k_wps,
                   forceVars, resultVars, extVars>>

---------------------------------------------------------------------------
(* lines 204-275: waypoint constraints *)

\* mutant: an interior waypoint takes the end of its segment
KnotOfWaypointNext(i, nwp, Kk, S) ==
    IF i = 0 THEN 0
    ELSE IF i = nwp - 1 THEN Kk - 1
    ELSE At(S, i + 1)

\* lines 206-211
KnotOfWaypoint(i, nwp, Kk, S) ==
    IF i = 0 THEN 0
    ELSE IF i = nwp - 1 THEN Kk - 1
    ELSE At(S, i)

\* mutant: the raw heading is constrained instead of the unwrapped one
PoseConsRaw(wp, i, k, theta) ==
    IF wp.type = "constrained"
    THEN << Con("waypoint", "px_eq", k, i, <<wp.x>>),
            Con("waypoint", "py_eq", k, i, <<wp.y>>),
            Con("waypoint", "theta_eq", k, i, <<wp.heading>>) >>
    ELSE IF wp.type = "unconstrained"
    THEN << Con("waypoint", "px_eq", k, i, <<wp.x>>),
            Con("waypoint", "py_eq", k, i, <<wp.y>>) >>
    ELSE <<>>

\* lines 214-223: the position and heading equalities
PoseCons(wp, i, k, theta) ==
    IF wp.type = "constrained"
    THEN << Con("waypoint", "px_eq", k, i, <<wp.x>>),
            Con("waypoint", "py_eq", k, i, <<wp.y>>),
            Con("waypoint", "theta_eq", k, i, <<theta>>) >>
    ELSE IF wp.type = "unconstrained"
    THEN << Con("waypoint", "px_eq", k, i, <<wp.x>>),
            Con("waypoint", "py_eq", k, i, <<wp.y>>) >>
    ELSE <<>>

\* mutant: the circle and the heading use the waypoint's x, y instead of
\* its intake point
IntakeConsAtWaypoint(wp, i, k) ==
    IF wp.type = "intake"
    THEN << Con("waypoint", "intake_circle_eq", k, i,
                <<wp.x, wp.y, wp.intake_distance>>),
            Con("waypoint", "intake_heading_eq", k, i, <<wp.x, wp.y>>),
            Con("waypoint", "intake_facing_ge", k, i, <<wp.x, wp.y>>),
            Con("waypoint", "omega_eq", k, i, <<0>>),
            Con("waypoint", "speed_sq_le", k, i, <<wp.intake_velocity_max>>),
            Con("waypoint", "vel_dir_slack_le", k, i,
                <<wp.intake_velocity_slack>>),
            Con("waypoint", "forward_vel_ge", k, i, <<0>>) >>
    ELSE <<>>

\* lines 225-269: the seven intake constraints
IntakeCons(wp, i, k) ==
    IF wp.type = "intake"
    THEN << Con("waypoint", "intake_circle_eq", k, i,
                <<wp.intake_x, wp.intake_y, wp.intake_distance>>),
            Con("waypoint", "intake_heading_eq", k, i,
                <<wp.intake_x, wp.intake_y>>),
            Con("waypoint", "intake_facing_ge", k, i,
                <<wp.intake_x, wp.intake_y>>),
            Con("waypoint", "omega_eq", k, i, <<0>>),
            Con("waypoint", "speed_sq_le", k, i, <<wp.intake_velocity_max>>),
            Con("waypoint", "vel_dir_slack_le", k, i,
                <<wp.intake_velocity_slack>>),
            Con("waypoint", "forward_vel_ge", k, i, <<0>>) >>
    ELSE <<>>

\* mutant: the velocity equalities are emitted whatever wp.stop is
StopConsAlways(wp, i, k) ==
    << Con("stop", "vx_eq", k, i, <<0>>),
       Con("stop", "vy_eq", k, i, <<0>>),
       Con("stop", "omega_eq", k, i, <<0>>) >>

\* lines 272-275
StopCons(wp, i, k) ==
    IF wp.stop
    THEN << Con("stop", "vx_eq", k, i, <<0>>),
            Con("stop", "vy_eq", k, i, <<0>>),
            Con("stop", "omega_eq", k, i, <<0>>) >>
    ELSE <<>>

RECURSIVE WaypointLoop(_, _, _, _, _, _)
WaypointLoop(wps, i, Kk, S, unwrapped, acc) ==
    IF i >= Len(wps) THEN acc
    ELSE LET wp == At(wps, i)
             k == KnotOfWaypoint(i, Len(wps), Kk, S)
         IN  WaypointLoop(wps, i + 1, Kk, S, unwrapped,
                 acc \o PoseCons(wp, i, k, At(unwrapped, i))
                     \o IntakeCons(wp, i, k)
                     \o StopCons(wp, i, k))

WaypointConstraints ==
    /\ pc = "waypoints"
    /\ cons' = WaypointLoop(waypoints, 0, K, segment_start_indices,
                            unwrapped_headings, cons)
    /\ k_wps' = [j \in 1 .. Len(waypoints) |->
                    KnotOfWaypoint(j - 1, Len(waypoints), K, segment_start_indices)]
    /\ pc' = "duty"
    /\ UNCHANGED <<min_samples_per_segment, samples_per_meter, waypoints,
                   constraints, n_segments, samples_per_segment, N, K,
                   segment_start_indices, dims, objective, uw_i, heading,
                   prev_heading, unwrapped_headings, forceVars, resultVars, extVars>>

---------------------------------------------------------------------------
(* lines 280-301: actuator, traction and step-size bounds *)

\* mutant: the duties of BL and BR are exchanged
SolveDutyMixSwapped(wheel) ==
    CASE wheel = 0 -> <<1, -1, -1>>
      [] wheel = 1 -> <<1, -1, 1>>
      [] wheel = 2 -> <<1, 1, -1>>
      [] wheel = 3 -> <<1, 1, 1>>

\* Wheels are numbered 0..3 = FL, BL, BR, FR.  A duty is given by its
\* coefficients on (drive, strafe, turn).  Lines 282-285.
SolveDutyMix(wheel) ==
    CASE wheel = 0 -> <<1, -1, -1>>
      [] wheel = 1 -> <<1, 1, -1>>
      [] wheel = 2 -> <<1, -1, 1>>
      [] wheel = 3 -> <<1, 1, 1>>

DutyCons(n) ==
    [j \in 1 .. (4 * n) |->
        LET k == (j - 1) \div 4
            w == (j - 1) % 4
        IN  Con("duty", "duty_bounded", k, w, <<-1>> \o SolveDutyMix(w) \o <<1>>)]

DutyBounds ==
    /\ pc = "duty"
    /\ cons' = cons \o DutyCons(N)
    /\ pc' = "traction"
    /\ UNCHANGED <<min_samples_per_segment, samples_per_meter, waypoints,
                   constraints, n_segments, samples_per_segment, N, K,
                   segment_start_indices, dims, objective, uw_i, heading,
                   prev_heading, unwrapped_headings, k_wps, forceVars, resultVars, extVars>>

\* lines 293-297: forces[i] of f_wheel_forces(X[:,k], U[:,k]) for i in 0..3
TractionCons(n, f_max) ==
    [j \in 1 .. (4 * n) |->
        Con("traction", "force_bounded", (j - 1) \div 4, (j - 1) % 4,
            <<-f_max, f_max>>)]

TractionLimits ==
    /\ pc = "traction"
    /\ cons' = cons \o TractionCons(N, FTractionMax)
    /\ pc' = "dt_bounds"
    /\ UNCHANGED <<min_samples_per_segment, samples_per_meter, waypoints,
                   constraints, n_segments, samples_per_segment, N, K,
                   segment_start_indices, dims, objective, uw_i, heading,
                   prev_heading, unwrapped_headings, k_wps, forceVars, resultVars, extVars>>

\* mutant: the last segment gets no bound
StepSizeConsButLast(nseg) ==
    [s \in 1 .. (nseg - 1) |->
        Con("dt", "dt_bounded", -1, s - 1, <<DtMin, DtMax>>)]

\* lines 300-301
StepSizeCons(nseg) ==
    [j \in 1 .. nseg |-> Con("dt", "dt_bounded", -1, j - 1, <<DtMin, DtMax>>)]

SegmentTimeBounds ==
    /\ pc = "dt_bounds"
    /\ cons' = cons \o StepSizeCons(n_segments)
    /\ pc' = "path"
    /\ UNCHANGED <<min_samples_per_segment, samples_per_meter, waypoints,
                   constraints, n_segments, samples_per_segment, N, K,
                   segment_start_indices, dims, objective, uw_i, heading,
                   prev_heading, unwrapped_headings, k_wps, forceVars, resultVars, extVars>>

---------------------------------------------------------------------------
(* _add_path_constraints, lines 391-421, and the _add_* helpers *)

\* Parameters are the defaults of params.get(...), in 1/100 units.
CircleObstacleCons(c, start_k, end_k) ==
    [j \in 1 .. Max(0, end_k - start_k + 1) |->
        Con("path", "circle_ge", start_k + j - 1, c, <<0, 0, 30>>)]

StayInRectCons(c, start_k, end_k) ==
    [j \in 1 .. 2 * Max(0, end_k - start_k + 1) |->
        IF (j - 1) % 2 = 0
        THEN Con("path", "rect_x_bounded", start_k + (j - 1) \div 2, c, <<0, 366>>)
        ELSE Con("path", "rect_y_bounded", start_k + (j - 1) \div 2, c, <<0, 366>>)]

\* mutant: the lane is built even when its two waypoints coincide
StayInLaneConsAnyLength(c, wps, from_wp, to_wp, start_k, end_k) ==
    IF to_wp <= from_wp \/ from_wp >= Len(wps) - 1 THEN <<>>
    ELSE LET wp1 == At(wps, from_wp)
             wp2 == At(wps, Min(to_wp, Len(wps) - 1))
         IN  [j \in 1 .. Max(0, end_k - start_k + 1) |->
                 Con("path", "lane_bounded", start_k + j - 1, c,
                     <<wp1.x, wp1.y, wp2.x - wp1.x, wp2.y - wp1.y, 25>>)]

\* lines 448-485; length < 1e-6 is dx = dy = 0 on integer positions
StayInLaneCons(c, wps, from_wp, to_wp, start_k, end_k) ==
    IF to_wp <= from_wp \/ from_wp >= Len(wps) - 1 THEN <<>>
    ELSE LET wp1 == At(wps, from_wp)
             wp2 == At(wps, Min(to_wp, Len(wps) - 1))
             dx == wp2.x - wp1.x
             dy == wp2.y - wp1.y
         IN  IF dx = 0 /\ dy = 0 THEN <<>>
             ELSE [j \in 1 .. Max(0, end_k - start_k + 1) |->
                      Con("path", "lane_bounded", start_k + j - 1, c,
                          <<wp1.x, wp1.y, dx, dy, 25>>)]

HeadingTangentCons(c, start_k, end_k) ==
    [j \in 1 .. Max(0, end_k - start_k + 1) |->
        Con("path", "tangent_le", start_k + j - 1, c, <<>>)]

MaxVelocityCons(c, start_k, end_k) ==
    [j \in 1 .. Max(0, end_k - start_k + 1) |->
        Con("path", "speed_sq_le", start_k + j - 1, c, <<150>>)]

MaxOmegaCons(c, start_k, end_k) ==
    [j \in 1 .. Max(0, end_k - start_k + 1) |->
        Con("path", "omega_bounded", start_k + j - 1, c, <<-500, 500>>)]

\* lines 395-396
ClampWaypoint(w, n_waypoints) == Max(0, Min(w, n_waypoints - 1))

\* lines 399-402
StartKnot(from_wp, S) == IF from_wp = 0 THEN 0 ELSE At(S, from_wp)

\* mutant: the range runs on to the knot of the next waypoint
EndKnotInclusive(to_wp, n_waypoints, Kk, S) ==
    IF to_wp >= n_waypoints - 1 THEN Kk - 1 ELSE At(S, to_wp + 1)

\* lines 404-407
EndKnot(to_wp, n_waypoints, Kk, S) ==
    IF to_wp >= n_waypoints - 1 THEN Kk - 1 ELSE At(S, to_wp + 1) - 1

\* the body of the loop over constraints, for the c-th constraint con
\* mutant: a kind without a branch is treated as a circle obstacle
PathConsOfElseCircle(con, c, wps, Kk, S) ==
    LET from_wp == ClampWaypoint(con.from_waypoint, Len(wps))
        to_wp == ClampWaypoint(con.to_waypoint, Len(wps))
        start_k == StartKnot(from_wp, S)
        end_k == EndKnot(to_wp, Len(wps), Kk, S)
    IN  CASE con.type = "stay-in-rect" -> StayInRectCons(c, start_k, end_k)
          [] con.type = "stay-in-lane" ->
                 StayInLaneCons(c, wps, from_wp, to_wp, start_k, end_k)
          [] con.type = "heading-tangent" -> HeadingTangentCons(c, start_k, end_k)
          [] con.type = "max-velocity" -> MaxVelocityCons(c, start_k, end_k)
          [] con.type = "max-omega" -> MaxOmegaCons(c, start_k, end_k)
          [] OTHER -> CircleObstacleCons(c, start_k, end_k)

PathConsOf(con, c, wps, Kk, S) ==
    LET from_wp == ClampWaypoint(con.from_waypoint, Len(wps))
        to_wp == ClampWaypoint(con.to_waypoint, Len(wps))
        start_k == StartKnot(from_wp, S)
        end_k == EndKnot(to_wp, Len(wps), Kk, S)
    IN  CASE con.type = "circle-obstacle" -> CircleObstacleCons(c, start_k, end_k)
          [] con.type = "stay-in-rect" -> StayInRectCons(c, start_k, end_k)
          [] con.type = "stay-in-lane" ->
                 StayInLaneCons(c, wps, from_wp, to_wp, start_k, end_k)
          [] con.type = "heading-tangent" -> HeadingTangentCons(c, start_k, end_k)
          [] con.type = "max-velocity" -> MaxVelocityCons(c, start_k, end_k)
          [] con.type = "max-omega" -> MaxOmegaCons(c, start_k, end_k)
          [] OTHER -> <<>>

RECURSIVE PathLoop(_, _, _, _, _, _)
PathLoop(cl, c, wps, Kk, S, acc) ==
    IF c >= Len(cl) THEN acc
    ELSE PathLoop(cl, c + 1, wps, Kk, S, acc \o PathConsOf(At(cl, c), c, wps, Kk, S))

\* The constraint lists a solve is called with: none, or one constraint of
\* any kind over any pair of waypoints of the solve.
ConstraintLists(n_waypoints) ==
    {<<>>} \cup
    { <<PathConstraint(t, f, to)>> :
        t \in ConstraintKinds, f \in Range0(n_waypoints), to \in Range0(n_waypoints) }

\* _add_path_constraints, called with one of the given constraint lists
AddPathConstraintsFrom(lists) ==
    /\ pc = "path"
    /\ \E cl \in lists :
        /\ constraints' = cl
        /\ cons' = PathLoop(cl, 0, waypoints, K, segment_start_indices, cons)
    /\ pc' = "initial_guess"
    /\ UNCHANGED <<min_samples_per_segment, samples_per_meter, waypoints,
                   n_segments, samples_per_segment, N, K, segment_start_indices,
                   dims, objective, uw_i, heading, prev_heading,
                   unwrapped_headings, k_wps, forceVars, resultVars, extVars>>

AddPathConstraints == AddPathConstraintsFrom(ConstraintLists(Len(waypoints)))

---------------------------------------------------------------------------
(* dynamics.py: wheel forces, in exact rational arithmetic.                *)
(* A rational is a pair <<numerator, denominator>>, denominator > 0.       *)
(* A state is [vx, vy, omega, cs] with cs = <<5*cos(theta), 5*sin(theta)>>,*)
(* theta being one of the angles whose sine and cosine are rational.       *)

RInt(a) == <<a, 1>>

RAdd(a, b) == <<a[1] * b[2] + b[1] * a[2], a[2] * b[2]>>

RSub(a, b) == <<a[1] * b[2] - b[1] * a[2], a[2] * b[2]>>

RScale(c, a) == <<c * a[1], a[2]>>

\* a / n for an integer n > 0
RDiv(a, n) == <<a[1], a[2] * n>>

REq(a, b) == a[1] * b[2] = b[1] * a[2]

\* dynamics.py lines 94-97
DynamicsDutyMix(wheel) ==
    CASE wheel = 0 -> <<1, -1, -1>>
      [] wheel = 1 -> <<1, 1, -1>>
      [] wheel = 2 -> <<1, -1, 1>>
      [] wheel = 3 -> <<1, 1, 1>>

\* dynamics.py lines 71-110: f_fl, f_bl, f_br, f_fr inside f_dynamics
DynamicsWheelForces(x, u, p) ==
    LET vx_robot == RDiv(RInt(x.vx * x.cs[1] + x.vy * x.cs[2]), 5)
        vy_robot == RDiv(RInt(-x.vx * x.cs[2] + x.vy * x.cs[1]), 5)
        l == RInt((p.lx + p.ly) * x.omega)
        w_fl == RDiv(RSub(RSub(vx_robot, vy_robot), l), p.wheel_radius)
        w_bl == RDiv(RSub(RAdd(vx_robot, vy_robot), l), p.wheel_radius)
        w_br == RDiv(RAdd(RSub(vx_robot, vy_robot), l), p.wheel_radius)
        w_fr == RDiv(RAdd(RAdd(vx_robot, vy_robot), l), p.wheel_radius)
        duty(w) == LET m == DynamicsDutyMix(w)
                   IN  RInt(m[1] * u.drive + m[2] * u.strafe + m[3] * u.turn)
        torque_fl == RScale(p.t_max, RSub(duty(0), RDiv(w_fl, p.w_max)))
        torque_bl == RScale(p.t_max, RSub(duty(1), RDiv(w_bl, p.w_max)))
        torque_br == RScale(p.t_max, RSub(duty(2), RDiv(w_br, p.w_max)))
        torque_fr == RScale(p.t_max, RSub(duty(3), RDiv(w_fr, p.w_max)))
    IN  << RDiv(torque_fl, p.wheel_radius), RDiv(torque_bl, p.wheel_radius),
           RDiv(torque_br, p.wheel_radius), RDiv(torque_fr, p.wheel_radius) >>

\* mutant: the forces come back in the order FL, BR, BL, FR
WheelForcesMapSwapped(x, u, p) ==
    LET f == DynamicsWheelForces(x, u, p)
    IN  <<f[1], f[3], f[2], f[4]>>

\* dynamics.py lines 201-227: the vector f_wheel_forces returns
WheelForcesMap(x, u, p) ==
    LET vx_robot == RDiv(RInt(x.vx * x.cs[1] + x.vy * x.cs[2]), 5)
        vy_robot == RDiv(RInt(-x.vx * x.cs[2] + x.vy * x.cs[1]), 5)
        l == RInt((p.lx + p.ly) * x.omega)
        w_fl == RDiv(RSub(RSub(vx_robot, vy_robot), l), p.wheel_radius)
        w_bl == RDiv(RSub(RAdd(vx_robot, vy_robot), l), p.wheel_radius)
        w_br == RDiv(RAdd(RSub(vx_robot, vy_robot), l), p.wheel_radius)
        w_fr == RDiv(RAdd(RAdd(vx_robot, vy_robot), l), p.wheel_radius)
        duty_fl == RInt(u.drive - u.strafe - u.turn)
        duty_bl == RInt(u.drive + u.strafe - u.turn)
        duty_br == RInt(u.drive - u.strafe + u.turn)
        duty_fr == RInt(u.drive + u.strafe + u.turn)
        torque_fl == RScale(p.t_max, RSub(duty_fl, RDiv(w_fl, p.w_max)))
        torque_bl == RScale(p.t_max, RSub(duty_bl, RDiv(w_bl, p.w_max)))
        torque_br == RScale(p.t_max, RSub(duty_br, RDiv(w_br, p.w_max)))
        torque_fr == RScale(p.t_max, RSub(duty_fr, RDiv(w_fr, p.w_max)))
    IN  << RDiv(torque_fl, p.wheel_radius), RDiv(torque_bl, p.wheel_radius),
           RDiv(torque_br, p.wheel_radius), RDiv(torque_fr, p.wheel_radius) >>

\* <<5*cos, 5*sin>> of the angles 0, atan(4/3), pi/2, pi - atan(3/4), pi, -pi/2
RationalAngles == { <<5, 0>>, <<3, 4>>, <<0, 5>>, <<-4, 3>>, <<-5, 0>>, <<0, -5>> }

ForceStates ==
    [vx : -MaxVel .. MaxVel, vy : -MaxVel .. MaxVel, omega : -MaxVel .. MaxVel,
     cs : RationalAngles]

ForceControls == [drive : -1 .. 1, strafe : -1 .. 1, turn : -1 .. 1]

ForceParams ==
    [wheel_radius : {1, 2}, lx : {1}, ly : {1, 2}, w_max : {3}, t_max : {2}]

SolveIdle ==
    /\ pc = "idle"
    /\ min_samples_per_segment = 1
    /\ samples_per_meter = 1
    /\ waypoints = <<>>
    /\ constraints = <<>>
    /\ n_segments = 0
    /\ samples_per_segment = <<>>
    /\ N = 0
    /\ K = 0
    /\ segment_start_indices = <<>>
    /\ dims = <<>>
    /\ objective = <<>>
    /\ cons = <<>>
    /\ uw_i = 0
    /\ heading = 0
    /\ prev_heading = 0
    /\ unwrapped_headings = <<>>
    /\ k_wps = <<>>
    /\ ResultIdle

InitForces ==
    /\ SolveIdle
    /\ ExtIdle
    /\ fx \in ForceStates
    /\ fu \in ForceControls
    /\ fp \in ForceParams
    /\ f_dyn = <<>>
    /\ f_map = <<>>

\* f_dynamics(x, u) is evaluated: its internal wheel forces
EvalDynamics ==
    /\ f_dyn = <<>>
    /\ f_dyn' = DynamicsWheelForces(fx, fu, fp)
    /\ UNCHANGED <<solveVars, resultVars, extVars, fx, fu, fp, f_map>>

\* f_wheel_forces(x, u) is evaluated
EvalWheelForces ==
    /\ f_map = <<>>
    /\ f_map' = WheelForcesMap(fx, fu, fp)
    /\ UNCHANGED <<solveVars, resultVars, extVars, fx, fu, fp, f_dyn>>

NextForces == EvalDynamics \/ EvalWheelForces

SpecForces == InitForces /\ [][NextForces]_vars

---------------------------------------------------------------------------
(* _set_initial_guess, lines 520-627.  A guessed position or heading is a  *)
(* rational <<numerator, denominator>>: local_progress is a ratio of knot  *)
(* counts.                                                                 *)

\* mutant: the approach direction starts at the previous waypoint's own x, y
RECURSIVE GuessEffectiveLoopRawPrev(_, _, _, _)
GuessEffectiveLoopRawPrev(wps, unwrapped, i, acc) ==
    IF i >= Len(wps) THEN acc
    ELSE LET wp == At(wps, i)
             prev == IF i > 0 THEN <<At(wps, i - 1).x, At(wps, i - 1).y>> ELSE <<>>
             e == IF wp.type = "intake"
                  THEN IntakeEffective(wp, prev)
                  ELSE <<wp.x, wp.y, At(unwrapped, i)>>
         IN  GuessEffectiveLoopRawPrev(wps, unwrapped, i + 1, Append(acc, e))

\* lines 526-555: as _compute_effective_positions, but the third component
\* of a waypoint that is not an intake waypoint is its unwrapped heading
RECURSIVE GuessEffectiveLoop(_, _, _, _)
GuessEffectiveLoop(wps, unwrapped, i, acc) ==
    IF i >= Len(wps) THEN acc
    ELSE LET wp == At(wps, i)
             e == IF wp.type = "intake"
                  THEN IntakeEffective(wp, IF i > 0 THEN At(acc, i - 1) ELSE <<>>)
                  ELSE <<wp.x, wp.y, At(unwrapped, i)>>
         IN  GuessEffectiveLoop(wps, unwrapped, i + 1, Append(acc, e))

\* lines 558-564, squared: segment_dists[s]^2
SegmentDistsSq(eff) ==
    [s \in 1 .. (Len(eff) - 1) |->
        (eff[s + 1][1] - eff[s][1]) * (eff[s + 1][1] - eff[s][1])
      + (eff[s + 1][2] - eff[s][2]) * (eff[s + 1][2] - eff[s][2])]

\* lines 570-574: dt_guess = max(sqrt(d2) / avg_speed, 0.1) / n, kept as the
\* pair it is computed from
StepGuess(d2s, samples) ==
    [s \in 1 .. Len(samples) |-> [d2 |-> d2s[s], n |-> samples[s]]]

\* line 573 divides by samples_per_segment[s]
StepGuessDividesByZero(samples) == \E s \in 1 .. Len(samples) : samples[s] = 0

\* lines 601-605: one correction of the heading difference, not a loop
GuessHeadingDelta(theta1, theta2) ==
    LET dtheta == theta2 - theta1
    IN  IF dtheta > PI THEN FSub(dtheta, TWO_PI)
        ELSE IF dtheta < -PI THEN FAdd(dtheta, TWO_PI)
        ELSE dtheta

\* theta2 - theta1, x2 - x1 in floating point: an operand at or beyond
\* Absorb swallows one below it
FDiff(b, a) ==
    IF Abs(a) >= Absorb /\ Abs(b) < Absorb THEN -a
    ELSE IF Abs(b) >= Absorb /\ Abs(a) < Absorb THEN b
    ELSE b - a

\* mutant: the interpolation runs from the far end
LerpBackwards(x1, x2, num, den) ==
    <<x2 * den + num * (x1 - x2), den>>

\* lines 597-598: x1 + local_progress * (x2 - x1) for local_progress =
\* num / den, in floating point, as the fraction <<numerator, den>>
Lerp(x1, x2, num, den) ==
    LET d == FDiff(x2, x1)
    IN  IF Abs(x1) >= Absorb /\ Abs(num * d) < Absorb * den THEN <<x1 * den, den>>
        ELSE IF Abs(x1) < Absorb /\ Abs(num * d) >= Absorb * den THEN <<num * d, den>>
        ELSE <<x1 * den + num * d, den>>

\* lines 584-623: the guess for knot k
KnotGuess(k, eff, d2s, Nn, Kk, nseg, S) ==
    LET seg_idx == IF k < Nn THEN get_segment_index(k, nseg, S) ELSE nseg - 1
        seg_start_k == At(S, seg_idx)
        seg_end_k == At(S, seg_idx + 1)
        num == IF seg_end_k > seg_start_k THEN k - seg_start_k ELSE 0
        den == IF seg_end_k > seg_start_k THEN seg_end_k - seg_start_k ELSE 1
        e1 == At(eff, seg_idx)
        e2 == At(eff, seg_idx + 1)
    IN  [seg_idx |-> seg_idx,
         \* vx, vy = (x2 - x1, y2 - y1) / max(sqrt(d2), 0.1): kept unevaluated
         vel |-> IF k < Kk - 1
                 THEN <<e2[1] - e1[1], e2[2] - e1[2], At(d2s, seg_idx)>>
                 ELSE <<0, 0, 0>>,
         omega |-> 0,
         px |-> Lerp(e1[1], e2[1], num, den),
         py |-> Lerp(e1[2], e2[2], num, den),
         theta |-> <<e1[3] * den + num * GuessHeadingDelta(e1[3], e2[3]), den>>]

\* lines 570-627: every opti.set_initial call, by variable
InitialGuess(eff, samples, S, Nn, Kk, nseg) ==
    LET d2s == SegmentDistsSq(eff)
    IN  [DT_seg |-> StepGuess(d2s, samples),
         X |-> [j \in 1 .. Kk |-> KnotGuess(j - 1, eff, d2s, Nn, Kk, nseg, S)],
         U |-> [j \in 1 .. Nn |-> <<0, 0, 0>>]]

SetInitialGuess ==
    /\ pc = "initial_guess"
    /\ LET eff == GuessEffectiveLoop(waypoints, unwrapped_headings, 0, <<>>)
       IN  /\ effective_positions' = eff
           /\ IF StepGuessDividesByZero(samples_per_segment)
              THEN /\ pc' = "raised"      \* ZeroDivisionError, line 573
                   /\ guess' = guess
              ELSE /\ pc' = "solver"
                   /\ guess' = InitialGuess(eff, samples_per_segment,
                                            segment_start_indices, N, K,
                                            n_segments)
    /\ UNCHANGED <<problemVars, forceVars, extVars, sol, result>>

---------------------------------------------------------------------------
(* _set_initial_guess on its own: the arguments solve hands to it for      *)
(* sampling parameters over the whole range the request model accepts.     *)

SamplesPerMeterLe == 100

MinSamplesLe == 50

\* waypoints close together, and waypoints far apart
NearChoices ==
    { Wp(0, 0, 0, TRUE, "constrained", 0, 0, 0, 1, 1),
      Wp(1, 1, 0, FALSE, "constrained", 0, 0, 0, 1, 1),
      Wp(0, 1, 0, FALSE, "intake", 2, 0, 1, 1, 1) }

FarChoices ==
    { Wp(1, 0, 0, TRUE, "constrained", 0, 0, 0, 1, 1),
      Wp(Huge, 1, 0, FALSE, "constrained", 0, 0, 0, 1, 1) }

GuessWaypointLists(choices) ==
    { w \in SeqsUpTo(choices, MaxWaypoints) : Len(w) >= 2 /\ ExactInput(w) }

\* what solve has computed when it calls _set_initial_guess (lines 143-151
\* and 192-202; all headings here are 0, which unwrapping leaves alone)
GuessArgs(wps, mu, spm) ==
    LET samples == compute_samples_per_segment(wps, mu, spm)
    IN  [min_samples_per_segment |-> mu,
         samples_per_meter |-> spm,
         waypoints |-> wps,
         unwrapped_headings |-> [i \in 1 .. Len(wps) |-> 0],
         K |-> Sum(samples) + 1,
         N |-> Sum(samples),
         n_segments |-> Len(wps) - 1,
         samples_per_segment |-> samples,
         segment_start_indices |-> StartIndices(samples)]

GuessInputs ==
    { GuessArgs(w, mu, spm) :
        w \in GuessWaypointLists(NearChoices),
        mu \in {1, MaxMinSamples, MinSamplesLe},
        spm \in {1, MaxSamplesPerMeter, SamplesPerMeterLe} }
    \cup
    { GuessArgs(w, mu, 1) :
        w \in GuessWaypointLists(FarChoices), mu \in {1, MaxMinSamples} }

\* everything but _set_initial_guess is at rest
GuessFnRest ==
    /\ SolveIdle
    /\ ForceIdle
    /\ RouteIdle
    /\ ServerIdle
    /\ CallsIdle

InitGuess ==
    /\ GuessFnRest
    /\ g_args \in GuessInputs
    /\ g_guess = <<>>

EvalInitialGuess ==
    /\ g_guess = <<>>
    /\ g_guess' =
         InitialGuess(GuessEffectiveLoop(g_args.waypoints,
                                         g_args.unwrapped_headings, 0, <<>>),
                      g_args.samples_per_segment,
                      g_args.segment_start_indices,
                      g_args.N, g_args.K, g_args.n_segments)
    /\ UNCHANGED <<solveVars, forceVars, resultVars, routeVars, serverVars,
                   callVars, g_args>>

NextGuess == EvalInitialGuess

SpecGuess == InitGuess /\ [][NextGuess]_vars

---------------------------------------------------------------------------
(* solve, lines 332-385: the solver call and the extraction of the result. *)
(* Step sizes are in 1/100 s, as DtMin and DtMax.                          *)

\* The step sizes the solver may hand back: all segments at one bound, or
\* the last segment at another value, inside or outside the bounds.
DtCandidates(nseg) ==
    { [s \in 1 .. nseg |-> v] : v \in {DtMin, DtMax} } \cup
    { [s \in 1 .. nseg |-> IF s = nseg THEN w ELSE DtMin] :
        w \in {0, DtMax, DtMax + 1} }

\* dt satisfies every step-size bound that was passed to opti.subject_to
SatisfiesStepBounds(dt) ==
    \A j \in 1 .. Len(cons) :
        cons[j].form = "dt_bounded" =>
            /\ cons[j].args[1] <= dt[cons[j].idx + 1]
            /\ dt[cons[j].idx + 1] <= cons[j].args[2]

\* lines 336-342.  opti.solve() returns: the point it returns satisfies the
\* constraints.  opti.solve() raises after the solver ran: opti.debug holds
\* the last iterate, which need not satisfy them.  opti.solve() raises before
\* the solver produced anything: opti.debug holds no iterate.
RunSolver ==
    /\ pc = "solver"
    /\ \/ \E dt \in DtCandidates(n_segments) :
            /\ SatisfiesStepBounds(dt)
            /\ sol' = [raised |-> FALSE, solved |-> TRUE, DT_seg |-> dt,
                       iter_count |-> 1]
       \/ \E dt \in DtCandidates(n_segments) :
            sol' = [raised |-> TRUE, solved |-> TRUE, DT_seg |-> dt,
                    iter_count |-> 1]
       \/ sol' = [raised |-> TRUE, solved |-> FALSE, DT_seg |-> <<>>,
                  iter_count |-> 0]
    /\ pc' = "extract"
    /\ UNCHANGED <<problemVars, forceVars, extVars, effective_positions, guess, result>>

\* sol.value(v) for a variable of r rows and c columns: a float, a
\* one-dimensional array or a two-dimensional array
ValueShape(r, c) ==
    IF r * c = 1 THEN "scalar"
    ELSE IF r = 1 \/ c = 1 THEN "vector"
    ELSE "matrix"

\* mutant: every interval takes the step size of the first segment
RECURSIVE CumulativeTimesFirst(_, _, _, _, _, _)
CumulativeTimesFirst(k, Nn, nseg, S, dt, times) ==
    IF k >= Nn THEN times
    ELSE CumulativeTimesFirst(k + 1, Nn, nseg, S, dt,
                              Append(times, times[Len(times)] + At(dt, 0)))

\* lines 353-357, called with k = 0 and times = <<0>>
RECURSIVE CumulativeTimes(_, _, _, _, _, _)
CumulativeTimes(k, Nn, nseg, S, dt, times) ==
    IF k >= Nn THEN times
    ELSE CumulativeTimes(k + 1, Nn, nseg, S, dt,
             Append(times, times[Len(times)]
                             + At(dt, get_segment_index(k, nseg, S))))

\* lines 362-368: X_opt[i, k] and U_opt[i, k] index two dimensions
ExtractionIndexError ==
    \/ K >= 1 /\ ValueShape(6, K) # "matrix"
    \/ N >= 1 /\ ValueShape(3, N) # "matrix"

ExtractResult ==
    /\ pc = "extract"
    /\ IF ~sol.solved \/ ExtractionIndexError
       THEN /\ pc' = "raised"       \* line 347, or line 364 or 368
            /\ result' = result
       ELSE LET times == CumulativeTimes(0, N, n_segments,
                                         segment_start_indices, sol.DT_seg, <<0>>)
            IN  /\ pc' = "done"
                /\ result' =
                     [success |-> ~sol.raised,
                      total_time |-> times[Len(times)],
                      times |-> times,
                      states |-> [rows |-> K, cols |-> 6],
                      controls |-> [rows |-> N, cols |-> 3],
                      iterations |-> sol.iter_count,
                      solve_time_ms |-> "elapsed"]
    /\ UNCHANGED <<problemVars, forceVars, extVars, effective_positions, guess, sol>>

\* The constraint lists of a whole solve: none, a lane between the first two
\* waypoints, or a constraint whose indices lie outside the waypoint list.
SampledConstraintLists(n_waypoints) ==
    { <<>>,
      <<PathConstraint("stay-in-lane", 0, 1)>>,
      <<PathConstraint("max-velocity", -1, n_waypoints)>>,
      <<PathConstraint("rect-obstacle", 0, 1),
        PathConstraint("max-velocity", 0, 0),
        PathConstraint("no-such-kind", 0, 0)>> }

AddPathConstraintsSampled ==
    AddPathConstraintsFrom(SampledConstraintLists(Len(waypoints)))

NextResult ==
    \/ SolveBegin
    \/ BuildGrid
    \/ CreateVariables
    \/ DynamicsConstraints
    \/ UnwrapStart
    \/ UnwrapSub
    \/ UnwrapSubDone
    \/ UnwrapAdd
    \/ UnwrapAppend
    \/ WaypointConstraints
    \/ DutyBounds
    \/ TractionLimits
    \/ SegmentTimeBounds
    \/ AddPathConstraintsSampled
    \/ SetInitialGuess
    \/ RunSolver
    \/ ExtractResult

SpecResult == Init /\ [][NextResult]_vars

---------------------------------------------------------------------------
Next ==
    \/ SolveBegin
    \/ BuildGrid
    \/ CreateVariables
    \/ DynamicsConstraints
    \/ UnwrapStart
    \/ UnwrapSub
    \/ UnwrapSubDone
    \/ UnwrapAdd
    \/ UnwrapAppend
    \/ WaypointConstraints
    \/ DutyBounds
    \/ TractionLimits
    \/ SegmentTimeBounds
    \/ AddPathConstraints

Spec == Init /\ [][Next]_vars

---------------------------------------------------------------------------
(* POST /solve: routes/solve.py lines 14-82, and its copy in server.py     *)
(* lines 136-194.  Speeds are in 1/10 m/s, the slack angle in 1/10 rad.    *)

\* the fields of the dataclass RobotParams, with their defaults
RobotParamsDefaults ==
    [mass |-> 15, inertia |-> 5, wheel_radius |-> 5, lx |-> 15, ly |-> 15,
     w_max |-> 100, t_max |-> 1, f_traction_max |-> 20]

\* the keyword arguments of the RobotParams(...) call of the route
RouteRobotParamsKeywords(rp) ==
    [mass |-> rp.mass, inertia |-> rp.inertia,
     wheel_radius |-> rp.wheel_radius, lx |-> rp.lx, ly |-> rp.ly,
     w_max |-> rp.w_max, t_max |-> rp.t_max,
     f_traction_max |-> rp.f_traction_max,
     k_roller_viscous |-> rp.k_roller_viscous,
     default_intake_distance |-> rp.default_intake_distance,
     default_intake_velocity |-> rp.default_intake_velocity]

\* the __init__ a dataclass generates raises TypeError for a keyword that
\* is not a field
RejectsKeywords(defaults, kwargs) == ~(DOMAIN kwargs \subseteq DOMAIN defaults)

\* the object it makes otherwise: a field without keyword keeps its default
NewDataclass(defaults, kwargs) ==
    [f \in DOMAIN defaults |->
        IF f \in DOMAIN kwargs THEN kwargs[f] ELSE defaults[f]]

\* the fields of the dataclass Waypoint that have a default
WaypointDefaults ==
    [stop |-> TRUE, v_max |-> 30, omega_max |-> 100, type |-> "constrained",
     intake_x |-> 0, intake_y |-> 0, intake_distance |-> 5,
     intake_velocity_max |-> 10, intake_velocity_slack |-> 1]

\* Waypoint(x=..., y=..., heading=..., **kwargs)
NewWaypoint(x, y, h, kwargs) ==
    LET rest == NewDataclass(WaypointDefaults, kwargs)
    IN  [f \in DOMAIN rest \cup {"x", "y", "heading"} |->
            CASE f = "x" -> x [] f = "y" -> y [] f = "heading" -> h
              [] OTHER -> rest[f]]

\* lines 44-47: the Waypoint the route builds for the request waypoint wp
RouteWaypoint(wp) ==
    NewWaypoint(wp.x, wp.y, wp.heading,
                [stop |-> wp.stop, v_max |-> wp.v_max,
                 omega_max |-> wp.omega_max, type |-> wp.type,
                 intake_x |-> wp.intake_x, intake_y |-> wp.intake_y,
                 intake_distance |-> wp.intake_distance])

\* lines 53-58: the PathConstraint the route builds for the request
\* constraint c
RouteConstraint(c) ==
    [type |-> c.type, from_waypoint |-> c.fromWaypoint,
     to_waypoint |-> c.toWaypoint, params |-> c.params]

WaypointRequests ==
    { [x |-> 0, y |-> 0, heading |-> 0, stop |-> TRUE, v_max |-> 30,
       omega_max |-> 100, type |-> "constrained", intake_x |-> 0,
       intake_y |-> 0, intake_distance |-> 5, intake_velocity_max |-> 10,
       intake_velocity_slack |-> 1],
      [x |-> 1, y |-> 0, heading |-> 1, stop |-> FALSE, v_max |-> 20,
       omega_max |-> 50, type |-> "unconstrained", intake_x |-> 0,
       intake_y |-> 0, intake_distance |-> 5, intake_velocity_max |-> 10,
       intake_velocity_slack |-> 1],
      [x |-> 1, y |-> 1, heading |-> 2, stop |-> FALSE, v_max |-> 30,
       omega_max |-> 100, type |-> "intake", intake_x |-> 2,
       intake_y |-> 1, intake_distance |-> 3, intake_velocity_max |-> 20,
       intake_velocity_slack |-> 3] }

ConstraintRequests ==
    { [id |-> "a", type |-> "max-velocity", fromWaypoint |-> 0,
       toWaypoint |-> 1, params |-> [v_max |-> 15], enabled |-> TRUE],
      [id |-> "b", type |-> "circle-obstacle", fromWaypoint |-> 0,
       toWaypoint |-> 0, params |-> [cx |-> 1, cy |-> 1, radius |-> 1],
       enabled |-> FALSE],
      [id |-> "c", type |-> "max-omega", fromWaypoint |-> 1,
       toWaypoint |-> 1, params |-> [omega_max |-> 20], enabled |-> TRUE] }

RobotParamsRequests ==
    { [mass |-> m, inertia |-> 5, wheel_radius |-> 5, lx |-> 15, ly |-> 15,
       w_max |-> 100, t_max |-> 1, f_traction_max |-> 20,
       k_roller_viscous |-> 3, default_intake_distance |-> 5,
       default_intake_velocity |-> 10] : m \in {15, 12} }

MaxRequestConstraints == 2

\* The requests that pass validation: at least two waypoints.  handler is
\* the module whose route serves the request; the SolveRequest of server.py
\* has no constraints; robot_params = <<>> is Python's None.
SolveRequests ==
    { r \in [handler : {"routes.solve", "server"},
             waypoints : [1 .. 2 -> WaypointRequests],
             constraints : SeqsUpTo(ConstraintRequests, MaxRequestConstraints),
             robot_params : RobotParamsRequests \cup {<<>>}] :
        r.handler = "server" => r.constraints = <<>> }

\* everything but the solve route is at rest
RouteRest ==
    /\ SolveIdle
    /\ ForceIdle
    /\ GuessFnIdle
    /\ ServerIdle
    /\ CallsIdle

InitRoute == RouteRest /\ RouteIdle

notRouteVars == <<solveVars, forceVars, resultVars, guessFnVars, serverVars,
                  callVars>>

\* a validated request reaches solve_trajectory
ReceiveSolveRequest ==
    /\ route_pc = "idle"
    /\ request = <<>>
    /\ request' \in SolveRequests
    /\ route_pc' = "params"
    /\ UNCHANGED <<params, core_waypoints, core_constraints, response,
                   notRouteVars>>

\* lines 26-41.  An exception here is outside the try of line 65: the
\* framework answers 500.
ConvertRobotParams ==
    /\ route_pc = "params"
    /\ LET kwargs == IF request.robot_params # <<>>
                     THEN RouteRobotParamsKeywords(request.robot_params)
                     ELSE <<>>
       IN  IF RejectsKeywords(RobotParamsDefaults, kwargs)
           THEN /\ route_pc' = "raised"
                /\ response' = [status |-> 500, detail |-> "Internal Server Error"]
                /\ params' = params
           ELSE /\ route_pc' = "waypoints"
                /\ params' = NewDataclass(RobotParamsDefaults, kwargs)
                /\ response' = response
    /\ UNCHANGED <<request, core_waypoints, core_constraints, notRouteVars>>

\* lines 43-49
ConvertWaypoints ==
    /\ route_pc = "waypoints"
    /\ core_waypoints' =
         [i \in 1 .. Len(request.waypoints) |-> RouteWaypoint(request.waypoints[i])]
    /\ route_pc' = IF request.handler = "server" THEN "solve" ELSE "constraints"
    /\ UNCHANGED <<request, params, core_constraints, response, notRouteVars>>

\* lines 52-60
ConvertConstraints ==
    /\ route_pc = "constraints"
    /\ LET enabled == SelectSeq(request.constraints, LAMBDA c : c.enabled)
       IN  core_constraints' =
             [j \in 1 .. Len(enabled) |-> RouteConstraint(enabled[j])]
    /\ route_pc' = "solve"
    /\ UNCHANGED <<request, params, core_waypoints, response, notRouteVars>>

\* lines 63-82: optimizer.solve returns a result or raises
CallSolve ==
    /\ route_pc = "solve"
    /\ \E raised \in BOOLEAN :
         response' = IF raised
                     THEN [status |-> 500, detail |-> "Solver error"]
                     ELSE [status |-> 200, detail |-> "SolveResponse"]
    /\ route_pc' = "responded"
    /\ UNCHANGED <<request, params, core_waypoints, core_constraints,
                   notRouteVars>>

NextRoute ==
    \/ ReceiveSolveRequest
    \/ ConvertRobotParams
    \/ ConvertWaypoints
    \/ ConvertConstraints
    \/ CallSolve

SpecRoute == InitRoute /\ [][NextRoute]_vars

---------------------------------------------------------------------------
(* Project storage and adb sync: routes/projects.py, routes/adb.py (and    *)
(* their copies in server.py).  Every handler is an async def that never   *)
(* yields, so the event loop runs one handler at a time.  A file name is   *)
(* its directory part, its stem and whether it ends with '.json'.          *)

MaxClock == 3

RawName(dir, stem, json) == [dir |-> dir, stem |-> stem, json |-> json]

\* the names clients ask for
RawNames ==
    { RawName("", "a", FALSE), RawName("", "a", TRUE),
      RawName("../", "b", FALSE) }

\* if not filename.endswith('.json'): filename += '.json'
EnsureJson(f) == [f EXCEPT !.json = TRUE]

\* Path(filename).name: the last component
PathName(f) == [f EXCEPT !.dir = ""]

\* mutant: '.json' is not appended
SafeFilenameAsGiven(f) == PathName(f)

\* safe_filename of the four handlers
SafeFilename(f) == PathName(EnsureJson(f))

\* path.stem
Stem(key) == key.stem

\* a JSON value, as far as the handlers look at it
Json(type, v, len) == [type |-> type, v |-> v, len |-> len]

Absent == Json("absent", "", 0)

\* the 'updatedAt' of a project: absent, or a string
Stamp(type, at) == [type |-> type, at |-> at]

\* the dicts clients save
ProjectChoices ==
    { [name |-> Json("str", "Alpha", 5), trajectories |-> Json("list", "", 2),
       updatedAt |-> Stamp("absent", 0)],
      [name |-> Absent, trajectories |-> Absent, updatedAt |-> Stamp("str", 0)],
      [name |-> Json("int", "123", 0), trajectories |-> Json("list", "", 1),
       updatedAt |-> Stamp("absent", 0)],
      [name |-> Json("str", "Beta", 4), trajectories |-> Json("int", "5", 0),
       updatedAt |-> Stamp("absent", 0)] }

\* datetime.utcnow() at tick t: seconds and microseconds
UtcNow(t) == [sec |-> t \div 2, micro |-> t % 2]

\* the order of the strings isoformat() + 'Z' makes of two ticks: isoformat
\* leaves the fraction out when microsecond is 0, and 'Z' sorts after '.'
IsoLess(t1, t2) ==
    LET a == UtcNow(t1)
        b == UtcNow(t2)
    IN  \/ a.sec < b.sec
        \/ /\ a.sec = b.sec
           /\ \/ a.micro # 0 /\ b.micro = 0
              \/ a.micro # 0 /\ b.micro # 0 /\ a.micro < b.micro

\* project['updatedAt'] = datetime.utcnow().isoformat() + 'Z'
WithUpdatedAt(project, t) == [project EXCEPT !.updatedAt = Stamp("str", t)]

\* json.dump(project, f), and what is left of it when the write fails
Dump(project) == [complete |-> TRUE, doc |-> project]

Torn == [complete |-> FALSE, doc |-> <<>>]

Answer(op, f, status, body) ==
    [op |-> op, filename |-> f, status |-> status, body |-> body]

Without(fn, key) == [k \in DOMAIN fn \ {key} |-> fn[k]]

With(fn, key, val) == [k \in DOMAIN fn \cup {key} |-> IF k = key THEN val ELSE fn[k]]

\* load_project, the answer
LoadProject(f) ==
    LET key == SafeFilename(f)
    IN  IF key \notin DOMAIN files
        THEN Answer("load", f, 404, "Project not found")
        ELSE IF ~files[key].complete
        THEN Answer("load", f, 500, "Invalid project file")
        ELSE Answer("load", f, 200, files[key].doc)

\* data.get(key, default) of list_projects, then the constructor of
\* ProjectMetadata: name must be a str, len() needs a sized value
MetadataRaises(data) ==
    \/ data.trajectories.type \notin {"absent", "list", "str"}
    \/ data.name.type \notin {"absent", "str"}

Metadata(key, data) ==
    [name |-> IF data.name.type = "absent" THEN Stem(key) ELSE data.name.v,
     filename |-> key,
     updatedAt |-> data.updatedAt.at,
     trajectoryCount |-> data.trajectories.len]

\* projects.sort(key=lambda p: p.updatedAt, reverse=True); the time stamps
\* of different files differ
RECURSIVE SortedDescending(_)
SortedDescending(entries) ==
    IF entries = {} THEN <<>>
    ELSE LET top == CHOOSE e \in entries :
                        \A o \in entries \ {e} : IsoLess(o.updatedAt, e.updatedAt)
         IN  <<top>> \o SortedDescending(entries \ {top})

\* list_projects, the answer: files that are not JSON are skipped; any
\* other exception leaves the handler
ListProjects ==
    LET readable == { k \in DOMAIN files : files[k].complete }
    IN  IF \E k \in readable : MetadataRaises(files[k].doc)
        THEN Answer("list", <<>>, 500, "Internal Server Error")
        ELSE Answer("list", <<>>, 200,
                    SortedDescending({ Metadata(k, files[k].doc) : k \in readable }))

\* everything but the project and adb endpoints is at rest
ServerRest ==
    /\ SolveIdle
    /\ ForceIdle
    /\ GuessFnIdle
    /\ RouteIdle
    /\ CallsIdle

InitServer == ServerRest /\ ServerIdle

notServerVars == <<solveVars, forceVars, resultVars, guessFnVars, routeVars,
                   callVars>>

\* GET /projects
ListProjectsCall ==
    /\ adb_pc = "idle"
    /\ reply' = ListProjects
    /\ UNCHANGED <<files, clock, adb_pc, adb_filename, adb_log, saved,
                   notServerVars>>

\* GET /projects/{filename}
LoadProjectCall ==
    /\ adb_pc = "idle"
    /\ \E f \in RawNames : reply' = LoadProject(f)
    /\ UNCHANGED <<files, clock, adb_pc, adb_filename, adb_log, saved,
                   notServerVars>>

\* POST /projects/{filename}: the file is written; or open() fails; or the
\* write fails part way; the last two are the IOError of line 77.  The clock
\* has moved on by one tick since the save before.
SaveProjectCall ==
    /\ adb_pc = "idle"
    /\ clock < MaxClock
    /\ \E f \in RawNames, project \in ProjectChoices,
          outcome \in {"written", "open failed", "write failed"} :
        LET key == SafeFilename(f)
            t == clock + 1
        IN  /\ clock' = t
            /\ CASE outcome = "written" ->
                      /\ files' = With(files, key, Dump(WithUpdatedAt(project, t)))
                      /\ saved' = With(saved, key, [project |-> project, at |-> t])
                      /\ reply' = Answer("save", f, 200, key)
                 [] outcome = "open failed" ->
                      /\ files' = files
                      /\ saved' = Without(saved, key)
                      /\ reply' = Answer("save", f, 500, "Failed to save project")
                 [] outcome = "write failed" ->
                      /\ files' = With(files, key, Torn)
                      /\ saved' = Without(saved, key)
                      /\ reply' = Answer("save", f, 500, "Failed to save project")
    /\ UNCHANGED <<adb_pc, adb_filename, adb_log, notServerVars>>

\* DELETE /projects/{filename}
DeleteProjectCall ==
    /\ adb_pc = "idle"
    /\ \E f \in RawNames :
        LET key == SafeFilename(f)
        IN  IF key \notin DOMAIN files
            THEN /\ reply' = Answer("delete", f, 404, "Project not found")
                 /\ UNCHANGED <<files, saved>>
            ELSE \E unlinked \in BOOLEAN :
                    IF unlinked
                    THEN /\ files' = Without(files, key)
                         /\ saved' = Without(saved, key)
                         /\ reply' = Answer("delete", f, 200, "success")
                    ELSE /\ reply' = Answer("delete", f, 500, "Failed to delete project")
                         /\ UNCHANGED <<files, saved>>
    /\ UNCHANGED <<clock, adb_pc, adb_filename, adb_log, notServerVars>>

\* one run_adb_command call, as adb_log keeps it
AdbRun(cmd, ok, out) == [cmd |-> cmd, ok |-> ok, out |-> out]

\* what 'adb devices' may print after its header: the state of each device
DeviceLists == { <<>>, <<"device">>, <<"offline">>, <<"unauthorized", "device">> }

\* mutant: any listed device counts as connected
ConnectedAnyState(ok, lines) == ok /\ lines # <<>>

\* adb_status, lines 42-55
Connected(ok, lines) == ok /\ \E j \in 1 .. Len(lines) : lines[j] = "device"

\* adb_push, lines 61-69
AdbPushBegin ==
    /\ adb_pc = "idle"
    /\ \E f \in RawNames :
        LET key == SafeFilename(f)
        IN  /\ adb_filename' = key
            /\ adb_log' = <<>>
            /\ IF key \notin DOMAIN files
               THEN /\ reply' = Answer("adb_push", f, 404, "Project not found")
                    /\ adb_pc' = "idle"
               ELSE /\ reply' = Answer("adb_push", f, 0, "pending")
                    /\ adb_pc' = "devices"
    /\ UNCHANGED <<files, clock, saved, notServerVars>>

\* lines 72-74
AdbPushStatus ==
    /\ adb_pc = "devices"
    /\ \E ok \in BOOLEAN, lines \in DeviceLists :
        /\ adb_log' = Append(adb_log, AdbRun("devices", ok, lines))
        /\ IF Connected(ok, lines)
           THEN /\ adb_pc' = "mkdir"
                /\ reply' = reply
           ELSE /\ adb_pc' = "idle"
                /\ reply' = [reply EXCEPT !.status = 400,
                                          !.body = "No Android device connected"]
    /\ UNCHANGED <<files, clock, adb_filename, saved, notServerVars>>

\* line 77: the outcome is not looked at
AdbPushMkdir ==
    /\ adb_pc = "mkdir"
    /\ \E ok \in BOOLEAN :
        adb_log' = Append(adb_log, AdbRun("shell mkdir -p", ok, <<>>))
    /\ adb_pc' = "push"
    /\ UNCHANGED <<files, clock, reply, adb_filename, saved, notServerVars>>

\* lines 80-86
AdbPushFile ==
    /\ adb_pc = "push"
    /\ \E ok \in BOOLEAN :
        /\ adb_log' = Append(adb_log, AdbRun("push", ok, <<>>))
        /\ reply' = IF ok
                    THEN [reply EXCEPT !.status = 200, !.body = "success"]
                    ELSE [reply EXCEPT !.status = 500, !.body = "ADB push failed"]
    /\ adb_pc' = "idle"
    /\ UNCHANGED <<files, clock, adb_filename, saved, notServerVars>>

NextServer ==
    \/ ListProjectsCall
    \/ LoadProjectCall
    \/ SaveProjectCall
    \/ DeleteProjectCall
    \/ AdbPushBegin
    \/ AdbPushStatus
    \/ AdbPushMkdir
    \/ AdbPushFile

SpecServer == InitServer /\ [][NextServer]_vars

---------------------------------------------------------------------------
(* Two solve calls on one TrajectoryOptimizer, interleaved at the phase    *)
(* boundaries of solve.  A frame holds the locals of one call; optimizer   *)
(* holds the attributes of self that solve reads.                          *)

Calls == {1, 2}

CallWaypointChoices ==
    { Wp(0, 0, 0, TRUE, "constrained", 0, 0, 0, 1, 1),
      Wp(1, 1, 3, FALSE, "constrained", 0, 0, 0, 1, 1) }

\* the lists the callers pass
CallWaypointLists ==
    { w \in SeqsUpTo(CallWaypointChoices, MaxWaypoints) : Len(w) >= 2 }

CallConstraintLists ==
    { <<>>, <<PathConstraint("max-velocity", 0, 1)>> }

\* __init__, lines 74-85
Optimizers ==
    [samples_per_meter : {1, MaxSamplesPerMeter},
     min_samples_per_segment : {1, MaxMinSamples},
     dt_min : {DtMin}, dt_max : {DtMax}]

NoFrame == [pc |-> "none"]

\* lines 137-141: the frame of a call that has bound its arguments; given
\* keeps what the caller passed and met the phase the other call was in at
\* that moment, for comparison
EnterSolve(wps, cl) ==
    [pc |-> "grid", given |-> [waypoints |-> wps, constraints |-> cl],
     met |-> "none",
     waypoints |-> wps, constraints |-> cl,
     samples_per_segment |-> <<>>, N |-> 0, K |-> 0,
     segment_start_indices |-> <<>>, objective |-> <<>>, cons |-> <<>>,
     result |-> <<>>]

\* lines 142-151
GridStep(fr, self) ==
    LET samples == compute_samples_per_segment(fr.waypoints,
                       self.min_samples_per_segment, self.samples_per_meter)
    IN  [fr EXCEPT !.pc = "build",
                   !.samples_per_segment = samples,
                   !.N = Sum(samples),
                   !.K = Sum(samples) + 1,
                   !.segment_start_indices = StartIndices(samples)]

\* lines 154-315, as far as they differ between calls: the objective, the
\* step-size bounds and the path constraints of this call's own opti
BuildStep(fr, self) ==
    [fr EXCEPT
        !.pc = "solver",
        !.objective = fr.samples_per_segment,
        !.cons =
            [j \in 1 .. Len(fr.samples_per_segment) |->
                Con("dt", "dt_bounded", -1, j - 1, <<self.dt_min, self.dt_max>>)]
            \o PathLoop(fr.constraints, 0, fr.waypoints, fr.K,
                        fr.segment_start_indices, <<>>)]

\* lines 321-385: the call's own solver instance answers from the call's
\* own problem; the answer is kept as the problem it was computed from and
\* the least total time its bounds allow
SolveStep(fr) ==
    [fr EXCEPT
        !.pc = "returned",
        !.result = [objective |-> fr.objective, cons |-> fr.cons,
                    K |-> fr.K,
                    total_time |-> Sum([s \in 1 .. Len(fr.objective) |->
                                          fr.objective[s] * fr.cons[s].args[1]])]]

\* mutant: the grid phase keeps the sample counts on the instance
SelfAfterStepStoresGrid(self, fr) ==
    [self EXCEPT !.min_samples_per_segment = Len(fr.waypoints)]

\* solve assigns to no attribute of self
SelfAfterStep(self, fr) == self

\* everything but the two calls is at rest
CallsRest ==
    /\ SolveIdle
    /\ ForceIdle
    /\ GuessFnIdle
    /\ RouteIdle
    /\ ServerIdle

InitCalls ==
    /\ CallsRest
    /\ optimizer \in Optimizers
    /\ call = [c \in Calls |-> NoFrame]

notCallVars == <<solveVars, forceVars, resultVars, guessFnVars, routeVars,
                 serverVars>>

CallEnter(c) ==
    /\ call[c].pc = "none"
    /\ \E wps \in CallWaypointLists, cl \in CallConstraintLists :
        call' = [call EXCEPT ![c] = [EnterSolve(wps, cl) EXCEPT
                                        !.met = call[CHOOSE o \in Calls : o # c].pc]]
    /\ UNCHANGED <<optimizer, notCallVars>>

CallGrid(c) ==
    /\ call[c].pc = "grid"
    /\ call' = [call EXCEPT ![c] = GridStep(call[c], optimizer)]
    /\ optimizer' = SelfAfterStep(optimizer, call[c])
    /\ UNCHANGED notCallVars

CallBuild(c) ==
    /\ call[c].pc = "build"
    /\ call' = [call EXCEPT ![c] = BuildStep(call[c], optimizer)]
    /\ optimizer' = SelfAfterStep(optimizer, call[c])
    /\ UNCHANGED notCallVars

CallSolver(c) ==
    /\ call[c].pc = "solver"
    /\ call' = [call EXCEPT ![c] = SolveStep(call[c])]
    /\ optimizer' = SelfAfterStep(optimizer, call[c])
    /\ UNCHANGED notCallVars

NextCalls ==
    \E c \in Calls :
        \/ CallEnter(c)
        \/ CallGrid(c)
        \/ CallBuild(c)
        \/ CallSolver(c)

SpecCalls == InitCalls /\ [][NextCalls]_vars

---------------------------------------------------------------------------
(* Properties *)

PhaseOrder ==
    << "idle", "grid", "variables", "dynamics", "unwrap", "unwrap_sub",
       "unwrap_add", "waypoints", "duty", "traction", "dt_bounds", "path",
       "initial_guess", "solver", "extract", "done", "raised" >>

Rank(p) == CHOOSE j \in 1 .. Len(PhaseOrder) : PhaseOrder[j] = p

\* the phase p of the current solve has run
Done(p) == pc # "error" /\ Rank(pc) > Rank(p)

\* the subject_to calls made by block src for index idx, in call order
ConsOf(src, idx) ==
    SelectSeq(cons, LAMBDA c : c.src = src /\ c.idx = idx)

ConsFrom(src) == SelectSeq(cons, LAMBDA c : c.src = src)

\* how many times exactly this call was made
Count(rec) == Cardinality({ j \in 1 .. Len(cons) : cons[j] = rec })

S(j) == At(segment_start_indices, j)

\* s is a segment that contains interval k
InSegment(k, s) == S(s) <= k /\ k < S(s + 1)

\* C1: for every interval k in [0, N), get_segment_index(k) is the unique
\* segment s with S[s] <= k < S[s+1]; exactly N dynamics defects are emitted,
\* the j-th for interval j, and it uses the step size DT_seg[s] of that segment.
C1_DefectUsesOwnSegment ==
    Done("dynamics") =>
        LET defects == ConsFrom("dynamics")
        IN  /\ Len(defects) = N
            /\ \A k \in Range0(N) :
                LET d == At(defects, k)
                IN  /\ d.form = "defect"
                    /\ d.k = k
                    /\ d.idx = get_segment_index(k, n_segments, segment_start_indices)
                    /\ d.idx \in Range0(n_segments)
                    /\ InSegment(k, d.idx)
                    /\ \A s \in Range0(n_segments) : InSegment(k, s) => s = d.idx

\* a solve with two segments of different lengths has emitted its defects,
\* and an interval of the second segment is among them
C1_Witness ==
    /\ Done("dynamics")
    /\ n_segments = 2
    /\ At(samples_per_segment, 0) # At(samples_per_segment, 1)
    /\ \E j \in 1 .. Len(cons) : cons[j].src = "dynamics" /\ cons[j].idx = 1
    /\ \E j \in 1 .. Len(cons) : cons[j].src = "dynamics" /\ cons[j].idx = 0

SqDist(e1, e2) ==
    (e2[1] - e1[1]) * (e2[1] - e1[1]) + (e2[2] - e1[2]) * (e2[2] - e1[2])

\* n = max(mu, ceil(spm * sqrt(d2))), stated without computing the ceiling
IsSampleCount(n, mu, spm, d2) ==
    /\ n >= mu
    /\ n * n >= spm * spm * d2
    /\ \/ n = mu
       \/ n = 0
       \/ (n - 1) * (n - 1) < spm * spm * d2

\* C2: for every waypoint list of length >= 2 and min_samples_per_segment >= 1,
\* n_s = max(min_samples_per_segment, ceil(samples_per_meter * dist_s)),
\* N = sum n_s, K = N + 1, S[0] = 0, S[s+1] = S[s] + n_s, S is strictly
\* increasing and S[last] = N.
C2_GridWellFormed ==
    (Done("grid") /\ min_samples_per_segment >= 1) =>
        LET eff == compute_effective_positions(waypoints)
        IN  /\ n_segments = Len(waypoints) - 1
            /\ Len(samples_per_segment) = n_segments
            /\ Len(segment_start_indices) = n_segments + 1
            /\ \A s \in Range0(n_segments) :
                /\ IsSampleCount(At(samples_per_segment, s), min_samples_per_segment,
                                 samples_per_meter, SqDist(At(eff, s), At(eff, s + 1)))
                /\ S(s + 1) = S(s) + At(samples_per_segment, s)
                /\ S(s) < S(s + 1)
            /\ N = Sum(samples_per_segment)
            /\ K = N + 1
            /\ S(0) = 0
            /\ S(n_segments) = N

\* a grid with a segment whose count comes from its length and a segment
\* whose count is min_samples_per_segment
C2_Witness ==
    /\ Done("grid")
    /\ min_samples_per_segment >= 1
    /\ n_segments = 2
    /\ \E s \in Range0(n_segments) : At(samples_per_segment, s) > min_samples_per_segment
    /\ \E s \in Range0(n_segments) :
        /\ At(samples_per_segment, s) = min_samples_per_segment
        /\ min_samples_per_segment > 1

\* C3: the knot of waypoint i is 0 for i = 0, K-1 for the last waypoint and
\* S[i] otherwise, and every waypoint constraint is placed at that knot; for
\* min_samples_per_segment >= 1 the knots are strictly increasing in i, lie
\* in [0, K-1] and no two waypoints share one.
C3_WaypointKnots ==
    Done("waypoints") =>
        LET n == Len(waypoints)
            knot(i) == IF i = 0 THEN 0 ELSE IF i = n - 1 THEN K - 1 ELSE S(i)
        IN  /\ Len(k_wps) = n
            /\ \A i \in Range0(n) : At(k_wps, i) = knot(i)
            /\ \A j \in 1 .. Len(cons) :
                cons[j].src \in {"waypoint", "stop"} => cons[j].k = knot(cons[j].idx)
            /\ min_samples_per_segment >= 1 =>
                /\ \A i \in Range0(n) : At(k_wps, i) \in 0 .. (K - 1)
                /\ \A i \in Range0(n - 1) : At(k_wps, i) < At(k_wps, i + 1)
                /\ \A i, j \in Range0(n) : At(k_wps, i) = At(k_wps, j) => i = j

\* three waypoints have been constrained, the interior one away from knot 0
C3_Witness ==
    /\ Done("waypoints")
    /\ min_samples_per_segment >= 1
    /\ Len(waypoints) = 3
    /\ \E j \in 1 .. Len(cons) :
        cons[j].src = "waypoint" /\ cons[j].idx = 1 /\ cons[j].k > 1 /\ cons[j].k < K - 1

\* the subject_to calls made by the waypoint loop, in call order
WaypointCalls == SelectSeq(cons, LAMBDA c : c.src \in {"waypoint", "stop"})

\* those of the calls made for waypoint i, and of them those of block src
Own(calls, i) == SelectSeq(calls, LAMBDA c : c.idx = i)

Block(own, src) == SelectSeq(own, LAMBDA c : c.src = src)

\* the subject_to calls made for waypoint i, by its type block or stop block
OfWaypoint(i) == Own(WaypointCalls, i)

\* C4: a constrained waypoint gets exactly px = x_i, py = y_i and
\* theta = theta_unwrapped[i] at its knot; an unconstrained waypoint gets only
\* px = x_i and py = y_i, and nothing on theta.
C4_PoseEqualities ==
    Done("waypoints") =>
        LET calls == WaypointCalls
        IN  \A i \in Range0(Len(waypoints)) :
                LET wp == At(waypoints, i)
                    k == At(k_wps, i)
                    block == Block(Own(calls, i), "waypoint")
                IN  /\ wp.type = "constrained" =>
                        block =
                            << Con("waypoint", "px_eq", k, i, <<wp.x>>),
                               Con("waypoint", "py_eq", k, i, <<wp.y>>),
                               Con("waypoint", "theta_eq", k, i,
                                   <<At(unwrapped_headings, i)>>) >>
                    /\ wp.type = "unconstrained" =>
                        block =
                            << Con("waypoint", "px_eq", k, i, <<wp.x>>),
                               Con("waypoint", "py_eq", k, i, <<wp.y>>) >>

\* a constrained waypoint whose unwrapped heading differs from its raw
\* heading, and an unconstrained waypoint, have been constrained
C4_Witness ==
    /\ Done("waypoints")
    /\ \E i \in Range0(Len(waypoints)) :
        /\ At(waypoints, i).type = "constrained"
        /\ At(unwrapped_headings, i) # At(waypoints, i).heading
        /\ Len(ConsOf("waypoint", i)) = 3
    /\ \E i \in Range0(Len(waypoints)) :
        /\ At(waypoints, i).type = "unconstrained"
        /\ Len(ConsOf("waypoint", i)) = 2

HasForm(seq, form) == \E j \in 1 .. Len(seq) : seq[j].form = form

TypeBlockSize(type) ==
    CASE type = "constrained" -> 3
      [] type = "unconstrained" -> 2
      [] type = "intake" -> 7

\* C5 as stated: a waypoint with stop = true gets vx = 0, vy = 0 and omega = 0
\* at its knot whatever its type, in addition to the constraints of its type;
\* a waypoint with stop = false gets none of these three equalities.
C5_Original ==
    Done("waypoints") =>
        \A i \in Range0(Len(waypoints)) :
            LET wp == At(waypoints, i)
                k == At(k_wps, i)
            IN  /\ wp.stop =>
                    /\ Count(Con("stop", "vx_eq", k, i, <<0>>)) = 1
                    /\ Count(Con("stop", "vy_eq", k, i, <<0>>)) = 1
                    /\ Count(Con("stop", "omega_eq", k, i, <<0>>)) = 1
                    /\ Len(ConsOf("waypoint", i)) = TypeBlockSize(wp.type)
                /\ ~wp.stop =>
                    /\ ~HasForm(OfWaypoint(i), "vx_eq")
                    /\ ~HasForm(OfWaypoint(i), "vy_eq")
                    /\ ~HasForm(OfWaypoint(i), "omega_eq")

\* C5, amended: a waypoint with stop = true gets vx = 0, vy = 0 and omega = 0
\* at its knot whatever its type, in addition to the constraints of its type;
\* a waypoint with stop = false gets neither vx = 0 nor vy = 0, and gets
\* omega = 0 exactly when its type is intake (the intake block emits it).
C5_StopEqualities ==
    Done("waypoints") =>
        LET calls == WaypointCalls
        IN  \A i \in Range0(Len(waypoints)) :
                LET wp == At(waypoints, i)
                    k == At(k_wps, i)
                    own == Own(calls, i)
                IN  /\ wp.stop =>
                        /\ Block(own, "stop") =
                            << Con("stop", "vx_eq", k, i, <<0>>),
                               Con("stop", "vy_eq", k, i, <<0>>),
                               Con("stop", "omega_eq", k, i, <<0>>) >>
                        /\ Len(Block(own, "waypoint")) = TypeBlockSize(wp.type)
                    /\ ~wp.stop =>
                        /\ Block(own, "stop") = <<>>
                        /\ ~HasForm(own, "vx_eq")
                        /\ ~HasForm(own, "vy_eq")
                        /\ HasForm(own, "omega_eq") <=> wp.type = "intake"

\* a waypoint that is not of the constrained type has been constrained with
\* stop = true, and an intake waypoint with stop = false in the same solve
C5_Witness ==
    /\ Done("waypoints")
    /\ \E i \in Range0(Len(waypoints)) :
        /\ At(waypoints, i).type # "constrained"
        /\ At(waypoints, i).stop
        /\ Len(ConsOf("stop", i)) = 3
    /\ \E i \in Range0(Len(waypoints)) :
        /\ At(waypoints, i).type = "intake"
        /\ ~At(waypoints, i).stop
        /\ ConsOf("stop", i) = <<>>
        /\ Len(ConsOf("waypoint", i)) = 7

\* C6: an intake waypoint gets, at its knot, the seven intake constraints
\* built from its own intake_x, intake_y, intake_distance,
\* intake_velocity_max and intake_velocity_slack, and no equality of px, py
\* or theta with its x, y or heading.
C6_IntakeConstraints ==
    Done("waypoints") =>
        LET calls == WaypointCalls
        IN  \A i \in Range0(Len(waypoints)) :
                LET wp == At(waypoints, i)
                    k == At(k_wps, i)
                    own == Own(calls, i)
                IN  wp.type = "intake" =>
                        /\ Block(own, "waypoint") =
                            << Con("waypoint", "intake_circle_eq", k, i,
                                   <<wp.intake_x, wp.intake_y, wp.intake_distance>>),
                               Con("waypoint", "intake_heading_eq", k, i,
                                   <<wp.intake_x, wp.intake_y>>),
                               Con("waypoint", "intake_facing_ge", k, i,
                                   <<wp.intake_x, wp.intake_y>>),
                               Con("waypoint", "omega_eq", k, i, <<0>>),
                               Con("waypoint", "speed_sq_le", k, i,
                                   <<wp.intake_velocity_max>>),
                               Con("waypoint", "vel_dir_slack_le", k, i,
                                   <<wp.intake_velocity_slack>>),
                               Con("waypoint", "forward_vel_ge", k, i, <<0>>) >>
                        /\ ~HasForm(own, "px_eq")
                        /\ ~HasForm(own, "py_eq")
                        /\ ~HasForm(own, "theta_eq")

\* two intake waypoints with different intake fields, the intake point away
\* from the waypoint's own x, y, have been constrained in one solve
C6_Witness ==
    /\ Done("waypoints")
    /\ \E i, j \in Range0(Len(waypoints)) :
        /\ At(waypoints, i).type = "intake"
        /\ At(waypoints, j).type = "intake"
        /\ At(waypoints, i).intake_x # At(waypoints, j).intake_x
        /\ At(waypoints, i).intake_velocity_max # At(waypoints, j).intake_velocity_max
        /\ At(waypoints, i).intake_x # At(waypoints, i).x
        /\ Len(ConsOf("waypoint", i)) = 7
        /\ Len(ConsOf("waypoint", j)) = 7

\* C7: every interval k in [0, N) gets the four actuator bounds
\* -1 <= d_i <= 1 on d_FL = drive-strafe-turn, d_BL = drive+strafe-turn,
\* d_BR = drive-strafe+turn, d_FR = drive+strafe+turn, the mix of the
\* dynamics model, and the four traction bounds -F_max <= F_i <= F_max; every
\* segment s gets dt_min <= DT_seg[s] <= dt_max; nothing is skipped or added
\* (as many records as bounds, and the records are the bounds, so each bound
\* is emitted exactly once).
C7_ActuatorTractionStepBounds ==
    Done("dt_bounds") =>
        LET mix == << <<1, -1, -1>>, <<1, 1, -1>>, <<1, -1, 1>>, <<1, 1, 1>> >>
            duty == ConsFrom("duty")
            traction == ConsFrom("traction")
            dt == ConsFrom("dt")
        IN  /\ Len(duty) = 4 * N
            /\ Len(traction) = 4 * N
            /\ Len(dt) = n_segments
            /\ \A w \in 0 .. 3 : DynamicsDutyMix(w) = At(mix, w)
            /\ { duty[j] : j \in 1 .. Len(duty) } =
                 { Con("duty", "duty_bounded", k, w, <<-1>> \o At(mix, w) \o <<1>>) :
                     k \in Range0(N), w \in 0 .. 3 }
            /\ { traction[j] : j \in 1 .. Len(traction) } =
                 { Con("traction", "force_bounded", k, w,
                       <<-FTractionMax, FTractionMax>>) :
                     k \in Range0(N), w \in 0 .. 3 }
            /\ { dt[j] : j \in 1 .. Len(dt) } =
                 { Con("dt", "dt_bounded", -1, s, <<DtMin, DtMax>>) :
                     s \in Range0(n_segments) }

\* the bounds of a solve with two segments and several intervals are emitted
C7_Witness ==
    /\ Done("dt_bounds")
    /\ n_segments = 2
    /\ N >= 3
    /\ Len(ConsFrom("duty")) = 4 * N
    /\ Len(ConsFrom("dt")) = 2

\* C8: for every state x and control u, f_wheel_forces returns the four
\* forces F_FL, F_BL, F_BR, F_FR that f_dynamics computes from the same x, u
\* and robot parameters, in the same order and with the same signs.
C8_WheelForcesAgree ==
    (f_dyn # <<>> /\ f_map # <<>>) =>
        /\ Len(f_dyn) = 4
        /\ Len(f_map) = 4
        /\ \A w \in 1 .. 4 : REq(f_dyn[w], f_map[w])

\* both functions were evaluated at a point where the four forces are
\* nonzero and pairwise different
C8_Witness ==
    /\ f_dyn # <<>>
    /\ f_map # <<>>
    /\ \A w \in 1 .. 4 : f_dyn[w][1] # 0
    /\ \A v, w \in 1 .. 4 : v # w => ~REq(f_dyn[v], f_dyn[w])

\* the knots at which the c-th path constraint is applied
KnotsOfPath(c) ==
    { cons[j].k : j \in { m \in 1 .. Len(cons) : cons[m].src = "path" /\ cons[m].idx = c } }

\* the knots S[from_wp] .. min(S[to_wp+1]-1, K-1), with K-1 as the end when
\* to_wp is the last waypoint
ClaimedKnots(from_wp, to_wp) ==
    LET end == IF to_wp = Len(waypoints) - 1 THEN K - 1
               ELSE Min(S(to_wp + 1) - 1, K - 1)
    IN  { k \in 0 .. K : S(from_wp) <= k /\ k <= end }

\* C9 as stated: every path constraint with in-range from_wp and to_wp is
\* applied at exactly the knots S[from_wp] .. min(S[to_wp+1]-1, K-1), and
\* each of them is a knot in [0, K-1].
C9_Original ==
    Done("path") =>
        \A c \in Range0(Len(constraints)) :
            LET con == At(constraints, c)
            IN  /\ KnotsOfPath(c) = ClaimedKnots(con.from_waypoint, con.to_waypoint)
                /\ ClaimedKnots(con.from_waypoint, con.to_waypoint) \subseteq 0 .. (K - 1)

\* the constraint is of a handled kind and does not return early
AppliesOverRange(con) ==
    \/ con.type \in { "circle-obstacle", "stay-in-rect", "heading-tangent",
                      "max-velocity", "max-omega" }
    \/ /\ con.type = "stay-in-lane"
       /\ con.from_waypoint < con.to_waypoint
       /\ \/ At(waypoints, con.from_waypoint).x # At(waypoints, con.to_waypoint).x
          \/ At(waypoints, con.from_waypoint).y # At(waypoints, con.to_waypoint).y

\* C9, amended: every path constraint with in-range indices whose kind is
\* circle-obstacle, stay-in-rect, heading-tangent, max-velocity or max-omega,
\* or stay-in-lane with from_wp < to_wp and the two waypoints at different
\* x, y, is applied at exactly the knots S[from_wp] .. min(S[to_wp+1]-1, K-1)
\* (K-1 as the end when to_wp is the last waypoint), each a knot in
\* [0, K-1]; any other path constraint is applied at no knot.
C9_PathRange ==
    Done("path") =>
        \A c \in Range0(Len(constraints)) :
            LET con == At(constraints, c)
                claimed == ClaimedKnots(con.from_waypoint, con.to_waypoint)
                per_knot == IF con.type = "stay-in-rect" THEN 2 ELSE 1
            IN  /\ claimed \subseteq 0 .. (K - 1)
                /\ AppliesOverRange(con) =>
                    /\ KnotsOfPath(c) = claimed
                    /\ Len(ConsOf("path", c)) = per_knot * Cardinality(claimed)
                /\ ~AppliesOverRange(con) => ConsOf("path", c) = <<>>

\* a path constraint over the second of three waypoints only has been
\* applied, at several knots, none of them the first or last knot
C9_Witness ==
    /\ Done("path")
    /\ Len(waypoints) = 3
    /\ Len(constraints) = 1
    /\ At(constraints, 0).from_waypoint = 1
    /\ At(constraints, 0).to_waypoint = 1
    /\ Cardinality(KnotsOfPath(0)) >= 2
    /\ 0 \notin KnotsOfPath(0)
    /\ (K - 1) \notin KnotsOfPath(0)

\* the headings unwrapped so far: the first is the raw heading, each later
\* one differs from its raw heading by a multiple of 2*pi and from its
\* predecessor by at most pi
UnwrappedSoFarOk ==
    \A i \in Range0(Len(unwrapped_headings)) :
        LET th == At(unwrapped_headings, i)
        IN  /\ i = 0 => th = At(waypoints, 0).heading
            /\ (th - At(waypoints, i).heading) % TWO_PI = 0
            /\ i >= 1 => Abs(th - At(unwrapped_headings, i - 1)) <= PI

\* C10 as stated: theta_unwrapped[0] = theta[0]; for i >= 1 theta_unwrapped[i]
\* differs from theta[i] by a multiple of 2*pi and lies within pi of
\* theta_unwrapped[i-1]; headings [0, 3*pi/2] give [0, -pi/2]; and the
\* unwrapping loops terminate for every finite input: a loop iteration that
\* runs brings heading strictly closer to prev_heading (an iteration that
\* leaves heading as it was repeats forever).
C10_Original ==
    /\ UnwrappedSoFarOk
    /\ (Done("unwrap_add") /\ Len(waypoints) = 2
            /\ At(waypoints, 0).heading = 0 /\ At(waypoints, 1).heading = 3)
        => unwrapped_headings = <<0, -1>>
    /\ (pc = "unwrap_sub" /\ NeedsSub(heading, prev_heading)) =>
        Abs(FSub(heading, TWO_PI) - prev_heading) < Abs(heading - prev_heading)
    /\ (pc = "unwrap_add" /\ NeedsAdd(heading, prev_heading)) =>
        Abs(FAdd(heading, TWO_PI) - prev_heading) < Abs(heading - prev_heading)

\* C11: in every result returned by solve, times has K entries, times[0] = 0,
\* times[k+1] = times[k] + Dt[seg(k)] for every interval k, total_time is
\* times[K-1] and equals the objective value, the sum over segments of
\* n_s * Dt[s]; when every Dt[s] >= dt_min > 0 the times are nondecreasing.
C11_TimesAndTotal ==
    pc = "done" =>
        LET t == result.times
            dt == sol.DT_seg
        IN  /\ Len(t) = K
            /\ At(t, 0) = 0
            /\ \A k \in Range0(N) :
                /\ \E s \in Range0(n_segments) : InSegment(k, s)
                /\ \A s \in Range0(n_segments) :
                    InSegment(k, s) => At(t, k + 1) = At(t, k) + At(dt, s)
            /\ result.total_time = At(t, K - 1)
            /\ result.total_time =
                 Sum([s \in 1 .. n_segments |-> objective[s] * dt[s]])
            /\ result.total_time =
                 Sum([s \in 1 .. n_segments |-> samples_per_segment[s] * dt[s]])
            /\ DtMin > 0
            /\ (\A s \in 1 .. n_segments : dt[s] >= DtMin) =>
                \A k \in Range0(N) : At(t, k) <= At(t, k + 1)

\* a result has been returned for two segments with different step sizes
C11_Witness ==
    /\ pc = "done"
    /\ n_segments = 2
    /\ sol.DT_seg[1] # sol.DT_seg[2]
    /\ At(samples_per_segment, 0) # At(samples_per_segment, 1)
    /\ Len(result.times) = K
    /\ result.total_time > 0

\* C12: for every result with success = true, total_time lies between the
\* sum over segments of n_s * dt_min and of n_s * dt_max, with dt_min = 0.01 s
\* and dt_max = 1.0 s; for two identical consecutive waypoints with
\* stop = true, n_s is min_samples_per_segment and total_time lies in
\* [n_s * dt_min, n_s * dt_max].  (The point a successful opti.solve()
\* returns is taken to satisfy the constraints passed to it.)
C12_TotalTimeBounds ==
    (pc = "done" /\ result.success) =>
        /\ DtMin = 1
        /\ DtMax = 100
        /\ Sum(samples_per_segment) * DtMin <= result.total_time
        /\ result.total_time <= Sum(samples_per_segment) * DtMax
        /\ (Len(waypoints) = 2 /\ waypoints[1] = waypoints[2] /\ waypoints[1].stop) =>
            /\ samples_per_segment = <<min_samples_per_segment>>
            /\ min_samples_per_segment * DtMin <= result.total_time
            /\ result.total_time <= min_samples_per_segment * DtMax

\* a successful result for two identical waypoints with stop = true, at the
\* lower end of the interval
C12_Witness ==
    /\ pc = "done"
    /\ result.success
    /\ Len(waypoints) = 2
    /\ waypoints[1] = waypoints[2]
    /\ waypoints[1].stop
    /\ result.total_time = min_samples_per_segment * DtMin

\* C13: solve called with fewer than 2 waypoints raises before any decision
\* variable is created, any constraint is emitted, any guess is set or the
\* solver is invoked, and returns no result.
C13_TooFewWaypointsRejected ==
    /\ (pc # "idle" /\ Len(waypoints) < 2) => pc = "error"
    /\ pc = "error" =>
        /\ Len(waypoints) < 2
        /\ dims = <<>>
        /\ objective = <<>>
        /\ cons = <<>>
        /\ guess = <<>>
        /\ sol = <<>>
        /\ result = <<>>

\* solve was called with exactly one waypoint and has raised
C13_Witness ==
    /\ pc = "error"
    /\ Len(waypoints) = 1

\* C15 as stated: a solve whose samples_per_meter is outside [1, 100] or whose
\* min_samples_per_segment is outside [1, 50] is rejected before any NLP work,
\* also when TrajectoryOptimizer is called directly.
C15_Original ==
    (pc # "idle" /\ (min_samples_per_segment \notin 1 .. 50
                     \/ samples_per_meter \notin 1 .. 100)) =>
        /\ pc = "error"
        /\ dims = <<>>
        /\ cons = <<>>

\* some path constraint of the solve names a waypoint that does not exist
HasOutOfBoundsIndex ==
    \E c \in Range0(Len(constraints)) :
        \/ At(constraints, c).from_waypoint \notin Range0(Len(waypoints))
        \/ At(constraints, c).to_waypoint \notin Range0(Len(waypoints))

\* C14 as stated: a path constraint whose from_waypoint or to_waypoint is out
\* of bounds makes solve raise an input-invalid error before any NLP work; it
\* is never applied to some other waypoint range.
C14_Original ==
    HasOutOfBoundsIndex =>
        /\ pc = "error"
        /\ ConsFrom("path") = <<>>

\* the result, if there is one, has K states, N controls and K times
ResultShaped ==
    /\ result # <<>>
    /\ result.states = [rows |-> K, cols |-> 6]
    /\ result.controls = [rows |-> N, cols |-> 3]
    /\ Len(result.times) = K

\* C16 as stated: when opti.solve() raises, solve does not throw: it returns
\* a result with success = false, K states, N controls, K times and the
\* iteration count; success = true only when opti.solve() did not raise.
C16_Original ==
    /\ (pc \in {"done", "raised"} /\ sol # <<>> /\ sol.raised) =>
        /\ pc = "done"
        /\ ~result.success
        /\ ResultShaped
        /\ result.iterations = sol.iter_count
    /\ (pc = "done" /\ result.success) => ~sol.raised

\* waypoints s and s+1 have the same effective position
ZeroLength(eff, s) ==
    /\ At(eff, s)[1] = At(eff, s + 1)[1]
    /\ At(eff, s)[2] = At(eff, s + 1)[2]

\* the c-th path constraint is a lane whose two waypoints have the same x, y
LaneOverCoincident(c) ==
    LET con == At(constraints, c)
        wp1 == At(waypoints, ClampWaypoint(con.from_waypoint, Len(waypoints)))
        wp2 == At(waypoints, ClampWaypoint(con.to_waypoint, Len(waypoints)))
    IN  /\ con.type = "stay-in-lane"
        /\ wp1.x = wp2.x
        /\ wp1.y = wp2.y

ValidInput ==
    /\ Len(waypoints) >= 2
    /\ min_samples_per_segment \in 1 .. 50
    /\ samples_per_meter \in 1 .. 100
    /\ ~HasOutOfBoundsIndex

\* C18 as stated, for the solves in which the solver produced an iterate:
\* for every valid input, N = 1 included, solve returns a result rather than
\* raising, with K rows of 6 states, N rows of 3 controls and K times.
C18_Original ==
    (pc \in {"done", "raised"} /\ ValidInput /\ sol # <<>> /\ sol.solved) =>
        /\ pc = "done"
        /\ ResultShaped

\* C19: the effective position of a waypoint that is not an intake waypoint
\* is its x, y; of an intake waypoint at i >= 1 it is the intake point moved
\* back by intake_distance along the unit direction from the previous
\* effective position to the intake point; of an intake waypoint at i = 0, or
\* whose previous effective position is the intake point, it is
\* (intake_x - intake_distance, intake_y).  The grid and the initial guess
\* use the same positions, and the segment distances are the distances
\* between consecutive effective positions.
C19_EffectivePositions ==
    effective_positions # <<>> =>
        LET E == effective_positions
            grid == compute_effective_positions(waypoints)
        IN  /\ Len(E) = Len(waypoints)
            /\ \A i \in Range0(Len(waypoints)) :
                LET wp == At(waypoints, i)
                    ex == At(E, i)[1]
                    ey == At(E, i)[2]
                    dx == wp.intake_x - At(E, i - 1)[1]
                    dy == wp.intake_y - At(E, i - 1)[2]
                    dist == CeilSqrt(dx * dx + dy * dy)
                IN  /\ ex = At(grid, i)[1]
                    /\ ey = At(grid, i)[2]
                    /\ wp.type # "intake" => (ex = wp.x /\ ey = wp.y)
                    /\ (wp.type = "intake" /\ i = 0) =>
                        (ex = wp.intake_x - wp.intake_distance /\ ey = wp.intake_y)
                    /\ (wp.type = "intake" /\ i >= 1) =>
                        IF dx = 0 /\ dy = 0
                        THEN ex = wp.intake_x - wp.intake_distance /\ ey = wp.intake_y
                        ELSE /\ dist * dist = dx * dx + dy * dy
                             /\ (wp.intake_x - ex) * dist = wp.intake_distance * dx
                             /\ (wp.intake_y - ey) * dist = wp.intake_distance * dy
            /\ \A s \in Range0(n_segments) :
                /\ IsSampleCount(At(samples_per_segment, s), min_samples_per_segment,
                                 samples_per_meter, SqDist(At(E, s), At(E, s + 1)))
                /\ guess # <<>> =>
                    guess.DT_seg[s + 1].d2 = SqDist(At(E, s), At(E, s + 1))

\* an intake waypoint follows an intake waypoint whose effective position is
\* not its own x, y, and the approach from the two differs
C19_Witness ==
    /\ guess # <<>>
    /\ \E i \in 1 .. (Len(waypoints) - 1) :
        /\ At(waypoints, i).type = "intake"
        /\ At(waypoints, i - 1).type = "intake"
        /\ At(effective_positions, i - 1)[1] # At(waypoints, i - 1).x
        /\ At(effective_positions, i)
             # IntakeEffective(At(waypoints, i),
                               <<At(waypoints, i - 1).x, At(waypoints, i - 1).y>>)

\* C20 as stated: the initial guess at the knot of an intake waypoint is not
\* on the circle of radius intake_distance around the intake point: its
\* distance to (intake_x, intake_y) differs from intake_distance.
C20_Original ==
    guess # <<>> =>
        \A i \in Range0(Len(waypoints)) :
            LET wp == At(waypoints, i)
                g == guess.X[At(k_wps, i) + 1]
                ddx == g.px[1] - wp.intake_x * g.px[2]
                ddy == g.py[1] - wp.intake_y * g.py[2]
            IN  wp.type = "intake" =>
                    ddx * ddx * g.py[2] * g.py[2] + ddy * ddy * g.px[2] * g.px[2]
                        # wp.intake_distance * wp.intake_distance
                            * g.px[2] * g.px[2] * g.py[2] * g.py[2]


---------------------------------------------------------------------------
(* The initial guess *)

\* the fraction q has the value v
RatIs(q, v) == q[1] = v * q[2]

\* C21, as stated: every knot lies in its segment with a local progress in
\* [0, 1] and is guessed at E[s] + progress * (E[s+1] - E[s]); the knot of
\* every waypoint, the last knot included, is guessed exactly at E[i]; every
\* omega and every control is guessed as zero.
C21_KnotInSegment(k) ==
    LET x == g_guess.X[k + 1]
        s == x.seg_idx
        E == compute_effective_positions(g_args.waypoints)
    IN  /\ s \in 0 .. (g_args.n_segments - 1)
        /\ At(g_args.segment_start_indices, s) <= k
        /\ k <= At(g_args.segment_start_indices, s + 1)
        /\ At(g_args.segment_start_indices, s) < At(g_args.segment_start_indices, s + 1)
        /\ LET a == At(g_args.segment_start_indices, s)
               b == At(g_args.segment_start_indices, s + 1)
           IN  /\ x.px = Lerp(At(E, s)[1], At(E, s + 1)[1], k - a, b - a)
               /\ x.py = Lerp(At(E, s)[2], At(E, s + 1)[2], k - a, b - a)
        /\ x.omega = 0

C21_AtWaypoint(i) ==
    LET x == g_guess.X[At(g_args.segment_start_indices, i) + 1]
        E == compute_effective_positions(g_args.waypoints)
    IN  RatIs(x.px, At(E, i)[1]) /\ RatIs(x.py, At(E, i)[2])

C21_ZeroControls == \A j \in 1 .. g_args.N : g_guess.U[j] = <<0, 0, 0>>

C21_Original ==
    g_guess # <<>> =>
        /\ g_args.K = Len(g_guess.X)
        /\ \A k \in Range0(g_args.K) : C21_KnotInSegment(k)
        /\ \A i \in Range0(Len(g_args.waypoints)) : C21_AtWaypoint(i)
        /\ C21_ZeroControls

\* the last segment's interpolation loses nothing to rounding
C21_LastSegmentExact ==
    LET E == compute_effective_positions(g_args.waypoints)
        n == Len(g_args.waypoints)
    IN  \A i \in {n - 2, n - 1} : \A c \in 1 .. 2 : Abs(At(E, i)[c]) < Absorb

\* C21, amended: as stated for every knot, every omega and every control;
\* the knot of every waypoint but the last is guessed exactly at E[i], and the
\* last knot is guessed at E[n-2] + 1.0 * (E[n-1] - E[n-2]) as the floating
\* point sum comes out, which is E[n-1] when that sum is exact.
C21_InitialGuessPositions ==
    g_guess # <<>> =>
        /\ g_args.K = Len(g_guess.X)
        /\ \A k \in Range0(g_args.K) : C21_KnotInSegment(k)
        /\ \A i \in Range0(Len(g_args.waypoints) - 1) : C21_AtWaypoint(i)
        /\ C21_LastSegmentExact => C21_AtWaypoint(Len(g_args.waypoints) - 1)
        /\ C21_ZeroControls

C21_Witness ==
    /\ g_guess # <<>>
    /\ Len(g_args.waypoints) = 3
    /\ \E i \in 1 .. 3 : g_args.waypoints[i].type = "intake"
    /\ \E k \in Range0(g_args.K) :
          /\ k \notin { At(g_args.segment_start_indices, i) : i \in Range0(3) }
          /\ g_guess.X[k + 1].seg_idx = 1
    /\ C21_LastSegmentExact
    /\ C21_AtWaypoint(2)


\* dt_guess = max(sqrt(g.d2), 0.1) / g.n seconds is at least b / 100 s
StepGuessAtLeast(g, b) ==
    \/ 10 >= b * g.n
    \/ 10000 * g.d2 >= b * b * g.n * g.n

\* dt_guess = max(sqrt(g.d2), 0.1) / g.n seconds is at most b / 100 s
StepGuessAtMost(g, b) ==
    /\ 10 <= b * g.n
    /\ 10000 * g.d2 <= b * b * g.n * g.n

\* the sampling parameters are ones the request model accepts
AcceptedSampling(a) ==
    /\ a.min_samples_per_segment \in 1 .. MinSamplesLe
    /\ a.samples_per_meter \in 1 .. SamplesPerMeterLe

\* C26, as stated: for accepted sampling parameters the step-size guess of
\* every segment lies within [dt_min, dt_max].
C26_Original ==
    (g_guess # <<>> /\ AcceptedSampling(g_args)) =>
        \A s \in 1 .. g_args.n_segments :
            /\ StepGuessAtLeast(g_guess.DT_seg[s], DtMin)
            /\ StepGuessAtMost(g_guess.DT_seg[s], DtMax)

\* C26, what does hold: no step-size guess exceeds dt_max
C26_GuessBelowDtMax ==
    (g_guess # <<>> /\ AcceptedSampling(g_args)) =>
        \A s \in 1 .. g_args.n_segments :
            StepGuessAtMost(g_guess.DT_seg[s], DtMax)


\* the heading difference the guess interpolates with across segment s
DeltaUsed(s) ==
    GuessHeadingDelta(At(effective_positions, s)[3],
                      At(effective_positions, s + 1)[3])

\* C22, as stated: across every segment the guess interpolates the heading
\* with a difference of magnitude at most pi, whatever the types and raw
\* headings of the waypoints, and at the knot of every constrained waypoint
\* the guessed heading is that waypoint's unwrapped heading.
C22_Original ==
    guess # <<>> =>
        /\ \A s \in Range0(n_segments) : Abs(DeltaUsed(s)) <= PI
        /\ \A i \in Range0(Len(waypoints)) :
              At(waypoints, i).type = "constrained" =>
                  RatIs(guess.X[At(k_wps, i) + 1].theta,
                        At(unwrapped_headings, i))

\* C22, first half alone
C22_DeltaAtMostPi ==
    guess # <<>> => \A s \in Range0(n_segments) : Abs(DeltaUsed(s)) <= PI

\* C22, second half alone
C22_ConstrainedHeadingGuessed ==
    guess # <<>> =>
        \A i \in Range0(Len(waypoints)) :
            At(waypoints, i).type = "constrained" =>
                RatIs(guess.X[At(k_wps, i) + 1].theta,
                      At(unwrapped_headings, i))


---------------------------------------------------------------------------
(* Path constraints of a kind the dispatch has no branch for *)

HandledKinds ==
    { "circle-obstacle", "stay-in-rect", "stay-in-lane", "heading-tangent",
      "max-velocity", "max-omega" }

\* the subject_to calls of seq without the index of the constraint they
\* were made for
WithoutIdx(seq) ==
    [j \in 1 .. Len(seq) |->
        [src |-> seq[j].src, form |-> seq[j].form, k |-> seq[j].k,
         args |-> seq[j].args]]

---------------------------------------------------------------------------
(* POST /solve *)

\* the request has got past the statement named p
RouteDone(p) ==
    LET order == <<"idle", "params", "waypoints", "constraints", "solve",
                   "responded">>
        rank(q) == CHOOSE j \in 1 .. Len(order) : order[j] = q
    IN  route_pc # "raised" /\ rank(route_pc) > rank(p)

\* C28, as stated: a request that supplies robot_params is converted to a
\* RobotParams record and reaches optimizer.solve; the conversion never
\* fails, in either route.
C28_Original ==
    (request # <<>> /\ request.robot_params # <<>>) =>
        /\ route_pc # "raised"
        /\ RouteDone("params") =>
              \A f \in DOMAIN RobotParamsDefaults :
                  params[f] = request.robot_params[f]

\* C29, as stated: every field of a request waypoint arrives unchanged in
\* the core Waypoint, intake_velocity_max and intake_velocity_slack
\* included, and the core receives exactly the enabled constraints, in
\* request order.
C29_Original ==
    /\ RouteDone("waypoints") =>
          /\ Len(core_waypoints) = Len(request.waypoints)
          /\ \A i \in 1 .. Len(request.waypoints) :
                \A f \in DOMAIN request.waypoints[i] :
                    core_waypoints[i][f] = request.waypoints[i][f]
    /\ (RouteDone("constraints") /\ request.handler = "routes.solve") =>
          core_constraints =
              [j \in 1 .. Len(SelectSeq(request.constraints, LAMBDA c : c.enabled)) |->
                  RouteConstraint(SelectSeq(request.constraints, LAMBDA c : c.enabled)[j])]

\* C29, the part that holds: the fields the route passes on arrive
\* unchanged, and the enabled constraints are passed in request order
C29_PassedFieldsAndEnabledConstraints ==
    /\ RouteDone("waypoints") =>
          /\ Len(core_waypoints) = Len(request.waypoints)
          /\ \A i \in 1 .. Len(request.waypoints) :
                \A f \in DOMAIN request.waypoints[i] \
                         {"intake_velocity_max", "intake_velocity_slack"} :
                    core_waypoints[i][f] = request.waypoints[i][f]
    /\ (RouteDone("constraints") /\ request.handler = "routes.solve") =>
          /\ \A j \in 1 .. Len(core_constraints) :
                \E m \in 1 .. Len(request.constraints) :
                    /\ request.constraints[m].enabled
                    /\ core_constraints[j] = RouteConstraint(request.constraints[m])
          /\ Len(core_constraints) =
                Cardinality({ m \in 1 .. Len(request.constraints) :
                                request.constraints[m].enabled })


---------------------------------------------------------------------------
(* Project storage *)

\* doc is project with nothing but 'updatedAt' added or replaced
OnlyUpdatedAtChanged(doc, project) ==
    /\ DOMAIN doc = DOMAIN project
    /\ \A field \in DOMAIN project \ {"updatedAt"} : doc[field] = project[field]
    /\ doc.updatedAt.type = "str"

C24_State ==
    /\ \A f \in RawNames :
          /\ SafeFilename(f) \in DOMAIN saved =>
                /\ LoadProject(f).status = 200
                /\ OnlyUpdatedAtChanged(LoadProject(f).body,
                                        saved[SafeFilename(f)].project)
          /\ LoadProject(EnsureJson(f)).status = LoadProject(f).status
          /\ LoadProject(EnsureJson(f)).body = LoadProject(f).body
    /\ (reply # <<>> /\ reply.op = "save" /\ reply.status = 200) =>
          /\ SafeFilename(reply.filename) \in DOMAIN saved
          /\ saved[SafeFilename(reply.filename)].at = clock
    /\ (reply # <<>> /\ reply.op = "delete" /\ reply.status = 200) =>
          LoadProject(reply.filename).status = 404
    /\ (reply # <<>> /\ reply.op \in {"load", "delete"} /\ reply.status = 404) =>
          SafeFilename(reply.filename) \notin DOMAIN files

C24_Step ==
    /\ (reply' # <<>> /\ reply'.op \in {"load", "delete"} /\ reply'.status = 404) =>
          files' = files
    /\ (reply' # <<>> /\ reply'.op = "load") => files' = files

\* C24: after a successful save of p under f, loading f returns p with only
\* 'updatedAt' added or replaced, until the next save or delete of the same
\* sanitized name; a later save overwrites; after a successful delete the
\* load answers 404; loading or deleting a name that is not stored answers
\* 404 and leaves the store as it is; 'f' and 'f.json' name the same project.
C24_ProjectRoundTrip == []C24_State /\ [][C24_Step]_vars

\* a project that came with an 'updatedAt' of the client's and was saved
\* after an earlier save has been loaded as 'a.json'
C24_Witness ==
    /\ reply # <<>>
    /\ reply.op = "load"
    /\ reply.status = 200
    /\ reply.filename = RawName("", "a", TRUE)
    /\ SafeFilename(reply.filename) \in DOMAIN saved
    /\ saved[SafeFilename(reply.filename)].project.updatedAt.type = "str"
    /\ reply.body.updatedAt.at >= 2

\* no stored file is the remains of a failed save
EverySaveSucceeded == \A k \in DOMAIN files : files[k].complete

\* entries is ordered newest first
NewestFirst(entries) ==
    \A i, j \in 1 .. Len(entries) :
        i < j => entries[i].updatedAt > entries[j].updatedAt

\* C30, as stated: when every save and delete so far succeeded,
\* list_projects succeeds and returns exactly one entry per stored file,
\* newest first, whatever the stored projects contain.
C30_Original ==
    (reply # <<>> /\ reply.op = "list" /\ EverySaveSucceeded) =>
        /\ reply.status = 200
        /\ { reply.body[j].filename : j \in 1 .. Len(reply.body) } = DOMAIN files
        /\ Len(reply.body) = Cardinality(DOMAIN files)
        /\ NewestFirst(reply.body)

\* C30, the part that holds: when no stored project makes the constructor of
\* ProjectMetadata raise, the listing succeeds with one entry per stored file
C30_UsualProjectsListed ==
    (/\ reply # <<>>
     /\ reply.op = "list"
     /\ EverySaveSucceeded
     /\ \A k \in DOMAIN files : ~MetadataRaises(files[k].doc)) =>
        /\ reply.status = 200
        /\ { reply.body[j].filename : j \in 1 .. Len(reply.body) } = DOMAIN files
        /\ Len(reply.body) = Cardinality(DOMAIN files)

\* C30: with usual projects only, the listing is still not newest first
C30_UsualProjectsNewestFirst ==
    (/\ reply # <<>>
     /\ reply.op = "list"
     /\ EverySaveSucceeded
     /\ \A k \in DOMAIN files : ~MetadataRaises(files[k].doc)) =>
        NewestFirst(reply.body)

---------------------------------------------------------------------------
(* adb_push *)

\* the adb_push request has been answered
AdbPushAnswered == reply # <<>> /\ reply.op = "adb_push" /\ adb_pc = "idle"

\* C25: adb_push answers 404 for a project that is not stored before any
\* adb command runs, answers 400 when no device is connected, runs 'push'
\* only after the project was found, a device was reported connected and
\* 'mkdir -p' was issued; a failed mkdir does not stop the push, and a
\* failed push answers 500.
C25_AdbPushOrder ==
    /\ AdbPushAnswered =>
          /\ reply.status \in {404, 400, 500, 200}
          /\ reply.status = 404 <=> SafeFilename(reply.filename) \notin DOMAIN files
          /\ reply.status = 404 => adb_log = <<>>
          /\ reply.status = 400 <=>
                /\ Len(adb_log) = 1
                /\ adb_log[1].cmd = "devices"
                /\ ~(adb_log[1].ok /\ \E j \in 1 .. Len(adb_log[1].out) :
                                          adb_log[1].out[j] = "device")
          /\ reply.status \in {500, 200} =>
                /\ Len(adb_log) = 3
                /\ adb_log[3].cmd = "push"
                /\ adb_log[3].ok <=> reply.status = 200
    /\ (reply # <<>> /\ reply.op = "adb_push") =>
          \A j \in 1 .. Len(adb_log) :
              adb_log[j].cmd = "push" =>
                  /\ j = 3
                  /\ adb_filename \in DOMAIN files
                  /\ adb_log[1].cmd = "devices"
                  /\ adb_log[1].ok
                  /\ \E m \in 1 .. Len(adb_log[1].out) : adb_log[1].out[m] = "device"
                  /\ adb_log[2].cmd = "shell mkdir -p"

\* the push has failed after a failed mkdir, with an unauthorized device
\* listed before the connected one
C25_Witness ==
    /\ AdbPushAnswered
    /\ reply.status = 500
    /\ Len(adb_log) = 3
    /\ ~adb_log[2].ok
    /\ adb_log[1].out = <<"unauthorized", "device">>


---------------------------------------------------------------------------
(* Interleaved solve calls *)

\* what solve returns for these arguments when it runs alone on self
ResultAlone(wps, cl, self) ==
    SolveStep(BuildStep(GridStep(EnterSolve(wps, cl), self), self)).result

C23_State ==
    \A c \in Calls :
        /\ call[c].pc # "none" =>
              /\ call[c].waypoints = call[c].given.waypoints
              /\ call[c].constraints = call[c].given.constraints
        /\ call[c].pc = "returned" =>
              call[c].result = ResultAlone(call[c].given.waypoints,
                                           call[c].given.constraints, optimizer)

C23_Step == optimizer' = optimizer

============================================================================
